---- MODULE Spec2Model ----
(***************************************************************************)
(* Response repair (InvoiceParser._parse_json_response /                   *)
(* _fix_json_response), validation (InvoiceValidator) and orchestration    *)
(* (InvoiceParser.parse_invoice / batch_parse) of the invoice extraction   *)
(* pipeline.                                                               *)
(*                                                                         *)
(* A Python str is a sequence of one-character strings.  A Python value    *)
(* (the result of json.loads, a field of a record) is a record             *)
(* [k |-> kind, v |-> payload] with kind one of "null", "bool", "num",     *)
(* "str", "list", "dict"; a number carries its decimal literal, a dict is  *)
(* a function from keys (character sequences) to values.                   *)
(***************************************************************************)
EXTENDS Integers, Sequences, FiniteSets, TLC

VARIABLES
    raw_response,      \* argument of _parse_json_response
    cleaned_response,  \* local of _parse_json_response (lines 104-126)
    rpc,               \* position inside _parse_json_response
    parsed,            \* value returned by _parse_json_response (when rpc = "returned")
    fix_calls,         \* number of executions of _fix_json_response in this call
    data,              \* argument of validate_invoice (a dict, mutated in place)
    vendor,            \* argument of validate_invoice
    validation_flags,  \* InvoiceValidator.validation_flags
    vpc,               \* position inside validate_invoice
    validated_data,    \* value returned by validate_invoice (when vpc = "returned")
    data_in,           \* history: the record as it was passed to validate_invoice
    flags_at_step,     \* history: validation_flags as each step of the pass left them
    lists,             \* the list objects holding findings, by identity
    validator_flags,   \* identity of the list InvoiceParser.validator.validation_flags is bound to
    call,              \* per thread: the locals of its parse_invoice invocation
    batch,             \* per thread: the locals of its batch_parse invocation
    history            \* history: every record returned by parse_invoice, with its findings then

vars == <<raw_response, cleaned_response, rpc, parsed, fix_calls,
          data, vendor, validation_flags, vpc, validated_data, data_in,
          flags_at_step, lists, validator_flags, call, batch, history>>

repairVars == <<raw_response, cleaned_response, rpc, parsed, fix_calls>>
validateVars ==
    <<data, vendor, validation_flags, vpc, validated_data, data_in, flags_at_step>>
pipelineVars == <<lists, validator_flags, call, batch, history>>

-----------------------------------------------------------------------------
(* Python str operations, with the 0-based indices of the source.          *)

SetMin(S) == CHOOSE x \in S : \A y \in S : x <= y
SetMax(S) == CHOOSE x \in S : \A y \in S : x >= y

\* s[a:b] for 0 <= a and 0 <= b
Slice(s, a, b) ==
    LET hi == IF b > Len(s) THEN Len(s) ELSE b
    IN  IF a >= hi THEN <<>> ELSE SubSeq(s, a + 1, hi)

\* s[a:]
SliceFrom(s, a) == Slice(s, a, Len(s))

\* s.count(c) for a one-character c
Count(s, c) == Cardinality({i \in 1..Len(s) : s[i] = c})

\* s.startswith(p), s.endswith(p)
StartsWith(s, p) == Len(p) <= Len(s) /\ SubSeq(s, 1, Len(p)) = p
EndsWith(s, p) == Len(p) <= Len(s) /\ SubSeq(s, Len(s) - Len(p) + 1, Len(s)) = p

\* the 0-based positions at which p occurs in s
Occurrences(s, p) ==
    {i \in 0..(Len(s) - Len(p)) : SubSeq(s, i + 1, i + Len(p)) = p}

\* s.find(p), s.rfind(p): -1 when p does not occur
Find(s, p) == IF Occurrences(s, p) = {} THEN -1 ELSE SetMin(Occurrences(s, p))
RFind(s, p) == IF Occurrences(s, p) = {} THEN -1 ELSE SetMax(Occurrences(s, p))

\* p in s
Contains(s, p) == Occurrences(s, p) # {}

IsSpace(c) == c \in {" ", "\n", "\t", "\r"}

\* s.strip()
Strip(s) ==
    LET keep == {i \in 1..Len(s) : ~IsSpace(s[i])}
    IN  IF keep = {} THEN <<>> ELSE SubSeq(s, SetMin(keep), SetMax(keep))

\* s.rstrip(',')
RStripComma(s) ==
    LET keep == {i \in 1..Len(s) : s[i] # ","}
    IN  IF keep = {} THEN <<>> ELSE SubSeq(s, 1, SetMax(keep))

\* s.split(':')[0]
SplitColonFirst(s) ==
    IF Find(s, <<":">>) = -1 THEN s ELSE Slice(s, 0, Find(s, <<":">>))

\* c * n for a one-character c
Repeat(c, n) == [i \in 1..n |-> c]

IsDigit(c) == c \in {"0", "1", "2", "3", "4", "5", "6", "7", "8", "9"}

-----------------------------------------------------------------------------
(* Python values.                                                          *)

NoneV == [k |-> "null", v |-> <<>>]
BoolV(b) == [k |-> "bool", v |-> b]
NumV(lit) == [k |-> "num", v |-> lit]
StrV(s) == [k |-> "str", v |-> s]
ListV(xs) == [k |-> "list", v |-> xs]
DictV(f) == [k |-> "dict", v |-> f]

EmptyDict == DictV(<<>>)
IsDict(x) == x.k = "dict"
IsList(x) == x.k = "list"

\* key in d, d.get(key) (None when absent), d[key] = val
HasKey(d, key) == key \in DOMAIN d.v
Get(d, key) == IF HasKey(d, key) THEN d.v[key] ELSE NoneV
Put(d, key, val) ==
    DictV([x \in (DOMAIN d.v) \cup {key} |-> IF x = key THEN val ELSE d.v[x]])

-----------------------------------------------------------------------------
(* json.loads: the decoder the parser calls at lines 116 and 142.  Strings *)
(* have no escape sequences (the texts of the model hold no backslash).    *)

At(s, i) == IF i >= 1 /\ i <= Len(s) THEN s[i] ELSE "EOF"

RECURSIVE SkipWs(_, _)
SkipWs(s, i) == IF IsSpace(At(s, i)) THEN SkipWs(s, i + 1) ELSE i

\* \d* matched at i: the first position from i on that holds no digit
DigitsEnd(s, i) ==
    SetMin({j \in i..(IF i > Len(s) THEN i ELSE Len(s) + 1) : ~IsDigit(At(s, j))})

ParseFail == [ok |-> FALSE, v |-> NoneV, i |-> 0]
ParseOk(val, next) == [ok |-> TRUE, v |-> val, i |-> next]

\* a string literal opening at s[i] = '"': up to the next quote, no control character inside
ParseString(s, i) ==
    LET closing == {j \in (i + 1)..Len(s) : s[j] = "\""}
        j == SetMin(closing)
    IN  IF closing = {} THEN ParseFail
        ELSE IF \E m \in (i + 1)..(j - 1) : s[m] \in {"\n", "\t", "\r"} THEN ParseFail
        ELSE ParseOk(StrV(SubSeq(s, i + 1, j - 1)), j + 1)

\* NUMBER_RE = (-?(?:0|[1-9]\d*))(\.\d+)?([eE][-+]?\d+)? matched at i
ParseNumber(s, i) ==
    LET p1 == IF At(s, i) = "-" THEN i + 1 ELSE i
        p2 == IF At(s, p1) = "0" THEN p1 + 1 ELSE DigitsEnd(s, p1)
        p3 == IF At(s, p2) = "." /\ IsDigit(At(s, p2 + 1)) THEN DigitsEnd(s, p2 + 1) ELSE p2
        p4 == IF At(s, p3) \in {"e", "E"} /\ IsDigit(At(s, p3 + 1))
                  THEN DigitsEnd(s, p3 + 1)
              ELSE IF At(s, p3) \in {"e", "E"} /\ At(s, p3 + 1) \in {"+", "-"}
                      /\ IsDigit(At(s, p3 + 2))
                  THEN DigitsEnd(s, p3 + 2)
              ELSE p3
    IN  IF p2 = p1 THEN ParseFail ELSE ParseOk(NumV(SubSeq(s, i, p4 - 1)), p4)

Literal(s, i, word, val) ==
    IF SubSeq(s \o Repeat("EOF", Len(word)), i, i + Len(word) - 1) = word
        THEN ParseOk(val, i + Len(word))
        ELSE ParseFail

RECURSIVE ParseValue(_, _)
RECURSIVE ParseMembers(_, _, _)
RECURSIVE ParseElements(_, _, _)

\* after "[" or ",": one value, then "," or "]"
ParseElements(s, i, acc) ==
    LET r == ParseValue(s, i)
        e == SkipWs(s, r.i)
    IN  IF ~r.ok THEN ParseFail
        ELSE IF At(s, e) = "]" THEN ParseOk(ListV(Append(acc, r.v)), e + 1)
        ELSE IF At(s, e) = "," THEN ParseElements(s, SkipWs(s, e + 1), Append(acc, r.v))
        ELSE ParseFail

\* after "{" or ",": "key" : value, then "," or "}"; a repeated key keeps the last value
ParseMembers(s, i, acc) ==
    LET key == IF At(s, i) = "\"" THEN ParseString(s, i) ELSE ParseFail
        c == SkipWs(s, key.i)
        r == IF key.ok /\ At(s, c) = ":" THEN ParseValue(s, SkipWs(s, c + 1)) ELSE ParseFail
        e == SkipWs(s, r.i)
        acc2 == Put(acc, key.v.v, r.v)
    IN  IF ~r.ok THEN ParseFail
        ELSE IF At(s, e) = "}" THEN ParseOk(acc2, e + 1)
        ELSE IF At(s, e) = "," THEN ParseMembers(s, SkipWs(s, e + 1), acc2)
        ELSE ParseFail

ParseValue(s, i) ==
    LET c == At(s, i)
    IN  IF c = "\"" THEN ParseString(s, i)
        ELSE IF c = "{" THEN
            IF At(s, SkipWs(s, i + 1)) = "}"
                THEN ParseOk(EmptyDict, SkipWs(s, i + 1) + 1)
                ELSE ParseMembers(s, SkipWs(s, i + 1), EmptyDict)
        ELSE IF c = "[" THEN
            IF At(s, SkipWs(s, i + 1)) = "]"
                THEN ParseOk(ListV(<<>>), SkipWs(s, i + 1) + 1)
                ELSE ParseElements(s, SkipWs(s, i + 1), <<>>)
        ELSE IF c = "n" THEN Literal(s, i, <<"n", "u", "l", "l">>, NoneV)
        ELSE IF c = "t" THEN Literal(s, i, <<"t", "r", "u", "e">>, BoolV(TRUE))
        ELSE IF c = "f" THEN Literal(s, i, <<"f", "a", "l", "s", "e">>, BoolV(FALSE))
        ELSE IF c = "-" \/ IsDigit(c) THEN ParseNumber(s, i)
        ELSE ParseFail

\* json.loads(s): [ok |-> FALSE] stands for json.JSONDecodeError
JsonLoads(s) ==
    LET r == ParseValue(s, SkipWs(s, 1))
    IN  IF r.ok /\ SkipWs(s, r.i) = Len(s) + 1 THEN r ELSE ParseFail

-----------------------------------------------------------------------------
(* InvoiceParser._fix_json_response, src/invoice_parser.py lines 158-239.  *)

ItemsKey == <<"\"", "i", "t", "e", "m", "s", "\"", ":", " ", "[">>
NullWord == <<"n", "u", "l", "l">>

\* lines 161-164: append the missing closing braces
CloseBraces(response) ==
    IF Count(response, "{") > Count(response, "}")
        THEN response \o Repeat("}", Count(response, "{") - Count(response, "}"))
        ELSE response

\* lines 167-180: the field after the last comma opens a quote and does not end with one
FixTruncatedString(response) ==
    LET last_comma == RFind(response, <<",">>)
        after_comma == Strip(SliceFrom(response, last_comma + 1))
    IN  IF Contains(response, <<"\"">>) /\ last_comma > 0
           /\ StartsWith(after_comma, <<"\"">>) /\ ~EndsWith(after_comma, <<"\"">>)
            THEN IF Contains(after_comma, <<":">>)
                    THEN Slice(response, 0, last_comma + 1)
                         \o SplitColonFirst(after_comma) \o <<":", " ">> \o NullWord
                    ELSE Slice(response, 0, last_comma + 1) \o NullWord
            ELSE response

\* lines 190-201: the index in items_content of the bracket closing the array, or -1
RECURSIVE ScanArrayEnd(_, _, _)
ScanArrayEnd(items_content, i, bracket_count) ==
    IF i >= Len(items_content) THEN -1
    ELSE IF items_content[i + 1] = "[" THEN ScanArrayEnd(items_content, i + 1, bracket_count + 1)
    ELSE IF items_content[i + 1] = "]" THEN
        IF bracket_count - 1 = 0 THEN i
        ELSE ScanArrayEnd(items_content, i + 1, bracket_count - 1)
    ELSE ScanArrayEnd(items_content, i + 1, bracket_count)

\* lines 205-227: the array is incomplete, cut it after the last complete item
CutIncompleteArray(response, items_start, items_content) ==
    LET last_complete_item == RFind(items_content, <<"}", ",">>)
        last_brace == RFind(items_content, <<"}">>)
        before_brace == Slice(items_content, 0, last_brace + 1)
    IN  IF last_complete_item > 0
            THEN Slice(response, 0, items_start + 10 + last_complete_item + 1) \o <<"]">>
        ELSE IF last_brace > 0 /\ Count(before_brace, "{") = Count(before_brace, "}")
            THEN Slice(response, 0, items_start + 10 + last_brace + 1) \o <<"]">>
        ELSE Slice(response, 0, items_start + 10) \o <<"[", "]">>

\* lines 183-228
FixItemsArray(response) ==
    LET items_start == Find(response, ItemsKey)
        items_content == SliceFrom(response, items_start + 10)
    IN  IF Contains(response, ItemsKey) /\ items_start > 0
           /\ ScanArrayEnd(items_content, 0, 1) = -1
            THEN CutIncompleteArray(response, items_start, items_content)
            ELSE response

\* lines 231-233: append the missing closing brackets
CloseBrackets(response) ==
    IF Count(response, "[") > Count(response, "]")
        THEN response \o Repeat("]", Count(response, "[") - Count(response, "]"))
        ELSE response

\* lines 236-237
EndWithBrace(response) ==
    IF ~EndsWith(response, <<"}">>) THEN RStripComma(response) \o <<"}">> ELSE response

FixJsonResponse(response) ==
    EndWithBrace(CloseBrackets(FixItemsArray(FixTruncatedString(CloseBraces(response)))))

-----------------------------------------------------------------------------
(* InvoiceParser._parse_json_response, src/invoice_parser.py lines 97-156. *)

\* "BQ" stands for the backquote character
FenceJson == <<"BQ", "BQ", "BQ", "j", "s", "o", "n">>
Fence == <<"BQ", "BQ", "BQ">>

\* lines 104-110: strip, drop a leading json fence and a trailing fence, strip
CleanMarkdown(raw) ==
    LET s0 == Strip(raw)
        s1 == IF StartsWith(s0, FenceJson) THEN SliceFrom(s0, 7) ELSE s0
        s2 == IF EndsWith(s1, Fence) THEN Slice(s1, 0, Len(s1) - 3) ELSE s1
    IN  Strip(s2)

\* lines 115-119: the first json.loads raises JSONDecodeError
FirstParseAlwaysFails(text) == TRUE

FirstParseFails(text) == ~JsonLoads(text).ok

-----------------------------------------------------------------------------
(* The responses given to _parse_json_response: every truncation of a few  *)
(* documents, bare, padded with white space, or inside a markdown fence.   *)

MaxItemObjects == 3

ItemKeyChars == <<"a", "b", "c", "d", "e", "f">>
ItemDigitChars == <<"1", "2", "3", "4", "5", "6">>

\* {"a":1}, {"b":2}, ...
ItemText(n) == <<"{", "\"", ItemKeyChars[n], "\"", ":", ItemDigitChars[n], "}">>

RECURSIVE JoinItems(_)
JoinItems(n) ==
    IF n = 0 THEN <<>>
    ELSE IF n = 1 THEN ItemText(1)
    ELSE JoinItems(n - 1) \o <<",">> \o ItemText(n)

\* {"items": [{"a":1},{"b":2}]}
ItemsDoc(n) == <<"{">> \o ItemsKey \o JoinItems(n) \o <<"]", "}">>

\* {"n":"x","items": [{"a":1},{"b":2}],"t":"yz"}
WrappedItemsDoc(n) ==
    <<"{", "\"", "n", "\"", ":", "\"", "x", "\"", ",">> \o ItemsKey \o JoinItems(n)
    \o <<"]", ",", "\"", "t", "\"", ":", "\"", "y", "z", "\"", "}">>

\* {"items": [{"a":{"x":1},"b":2},{"c":3}]}
NestedDoc ==
    <<"{", "\"", "i", "t", "e", "m", "s", "\"", ":", " ", "[", "{", "\"", "a", "\"", ":",
      "{", "\"", "x", "\"", ":", "1", "}", ",", "\"", "b", "\"", ":", "2", "}", ",", "{",
      "\"", "c", "\"", ":", "3", "}", "]", "}">>

\* {"items": [{"u":"12","q":1}, {"u":"34","q":2}]}
StringItemsDoc ==
    <<"{", "\"", "i", "t", "e", "m", "s", "\"", ":", " ", "[", "{", "\"", "u", "\"", ":",
      "\"", "1", "2", "\"", ",", "\"", "q", "\"", ":", "1", "}", ",", " ", "{", "\"", "u",
      "\"", ":", "\"", "3", "4", "\"", ",", "\"", "q", "\"", ":", "2", "}", "]", "}">>

\* {"a": [1, 2],"b":"xy"}
ArrayFieldDoc ==
    <<"{", "\"", "a", "\"", ":", " ", "[", "1", ",", " ", "2", "]", ",", "\"", "b", "\"",
      ":", "\"", "x", "y", "\"", "}">>

\* {"a":{"b":1,"c":"x"}}
NestedObjectDoc ==
    <<"{", "\"", "a", "\"", ":", "{", "\"", "b", "\"", ":", "1", ",", "\"", "c", "\"", ":",
      "\"", "x", "\"", "}", "}">>

\* documents that are a JSON object with an items array
ItemDocuments ==
    {ItemsDoc(n) : n \in 0..MaxItemObjects} \cup {WrappedItemsDoc(n) : n \in 0..MaxItemObjects}
    \cup {NestedDoc, StringItemsDoc}

\* valid JSON texts that are not an object: [1], null, "x", 12
NonObjectDocuments ==
    {<<"[", "1", "]">>, NullWord, <<"\"", "x", "\"">>, <<"1", "2">>}

\* texts no truncation produces: }, {}x
StrayDocuments == {<<"}">>, <<"{", "}", "x">>}

Documents ==
    ItemDocuments \cup {ArrayFieldDoc, NestedObjectDoc} \cup NonObjectDocuments
    \cup StrayDocuments

Prefixes(d) == {SubSeq(d, 1, n) : n \in 0..Len(d)}

Wrappings(t) ==
    { t,
      <<" ">> \o t \o <<"\n">>,
      FenceJson \o <<"\n">> \o t \o <<"\n">> \o Fence,
      FenceJson \o <<"\n">> \o t,
      Fence \o <<"\n">> \o t \o <<"\n">> \o Fence }

RawResponses == UNION {Wrappings(t) : t \in UNION {Prefixes(d) : d \in Documents}}

-----------------------------------------------------------------------------
(* _parse_json_response as a state machine.                                *)

RepairTerminal == {"returned", "MalformedResponse", "UnexpectedShape"}

RepairIdle ==
    /\ raw_response = <<>>
    /\ cleaned_response = <<>>
    /\ rpc = "idle"
    /\ parsed = NoneV
    /\ fix_calls = 0

\* InvoiceValidator.__init__, src/validators.py lines 14-17; no call in progress
ValidatorIdle ==
    /\ data = EmptyDict
    /\ data_in = EmptyDict
    /\ vendor = "lakeshore"
    /\ validation_flags = <<>>
    /\ vpc = "idle"
    /\ validated_data = NoneV
    /\ flags_at_step = <<>>

Threads == {1, 2}

\* a thread that is not inside parse_invoice / batch_parse
NoCall == [pc |-> "idle"]
NoBatch == [pc |-> "idle"]

\* InvoiceParser.__init__, src/invoice_parser.py lines 23-28, which constructs
\* the one validator (src/validators.py line 17: validation_flags = []); no
\* call in progress
PipelineIdle ==
    /\ lists = << <<>> >>
    /\ validator_flags = 1
    /\ call = [t \in Threads |-> NoCall]
    /\ batch = [t \in Threads |-> NoBatch]
    /\ history = <<>>

InitRepair ==
    /\ raw_response \in RawResponses
    /\ cleaned_response = <<>>
    /\ rpc = "start"
    /\ parsed = NoneV
    /\ fix_calls = 0
    /\ ValidatorIdle
    /\ PipelineIdle

\* lines 104-110
CleanResponse ==
    /\ rpc = "start"
    /\ cleaned_response' = CleanMarkdown(raw_response)
    /\ rpc' = "cleaned"
    /\ UNCHANGED <<raw_response, parsed, fix_calls>>
    /\ UNCHANGED <<validateVars, pipelineVars>>

\* lines 115-123: a text that parses is returned at line 118, whatever its type
FirstParse ==
    /\ rpc = "cleaned"
    /\ IF FirstParseFails(cleaned_response)
          THEN rpc' = "fixing" /\ UNCHANGED parsed
          ELSE rpc' = "returned" /\ parsed' = JsonLoads(cleaned_response).v
    /\ UNCHANGED <<raw_response, cleaned_response, fix_calls>>
    /\ UNCHANGED <<validateVars, pipelineVars>>

\* line 126
FixResponse ==
    /\ rpc = "fixing"
    /\ cleaned_response' = FixJsonResponse(cleaned_response)
    /\ fix_calls' = fix_calls + 1
    /\ rpc' = "fixed"
    /\ UNCHANGED <<raw_response, parsed>>
    /\ UNCHANGED <<validateVars, pipelineVars>>

\* lines 142-153: JSONDecodeError becomes ValueError("Invalid JSON response ..."),
\* a value that is no dict raises ValueError("Response is not a valid JSON object")
SecondParse ==
    /\ rpc = "fixed"
    /\ LET r == JsonLoads(cleaned_response)
       IN  IF ~r.ok THEN rpc' = "MalformedResponse" /\ UNCHANGED parsed
           ELSE IF ~IsDict(r.v) THEN rpc' = "UnexpectedShape" /\ UNCHANGED parsed
           ELSE rpc' = "returned" /\ parsed' = r.v
    /\ UNCHANGED <<raw_response, cleaned_response, fix_calls>>
    /\ UNCHANGED <<validateVars, pipelineVars>>

NextRepair == CleanResponse \/ FirstParse \/ FixResponse \/ SecondParse

SpecRepair == InitRepair /\ [][NextRepair]_vars

-----------------------------------------------------------------------------
(* Python float.  A float is <<sign, a, b, c>>: sign 1 or -1 and the       *)
(* magnitude (a * 2^44 + b * 2^22 + c) * 2^-46 with 0 <= b, c < 2^22, that *)
(* is an IEEE 754 double written in units of 2^-46.  Sums are rounded to   *)
(* 53 significant bits, ties to even, as the hardware does.  The model is  *)
(* exact for magnitudes below 2^29 that are multiples of 2^-46: integers,  *)
(* and decimal strings of at most two fraction digits that are at least 64 *)
(* or exactly representable; the strings of the model are of that kind and *)
(* carry no exponent, underscore, "inf" or "nan".                          *)

LimbBase == 2048 * 2048

RECURSIVE BitLength(_)
BitLength(n) == IF n = 0 THEN 0 ELSE 1 + BitLength(n \div 2)

RECURSIVE PowerOfTwo(_)
PowerOfTwo(n) == IF n = 0 THEN 1 ELSE 2 * PowerOfTwo(n - 1)

MagZero == <<0, 0, 0>>

MagLess(x, y) ==
    \/ x[1] < y[1]
    \/ x[1] = y[1] /\ x[2] < y[2]
    \/ x[1] = y[1] /\ x[2] = y[2] /\ x[3] < y[3]

MagAdd(x, y) ==
    LET c == x[3] + y[3]
        b == x[2] + y[2] + (c \div LimbBase)
    IN  <<x[1] + y[1] + (b \div LimbBase), b % LimbBase, c % LimbBase>>

\* x - y for y <= x
MagSub(x, y) ==
    LET c == x[3] - y[3]
        b == x[2] - y[2] - (IF c < 0 THEN 1 ELSE 0)
    IN  <<x[1] - y[1] - (IF b < 0 THEN 1 ELSE 0), b % LimbBase, c % LimbBase>>

\* round-to-nearest-even of (magnitude m plus a fraction of a unit that is zero,
\* below, equal to or above one half: frac = 0, 1, 2, 3) to 53 significant bits
MagRound(m, frac) ==
    LET drop == IF BitLength(m[1]) > 9 THEN BitLength(m[1]) - 9 ELSE 0
        q == PowerOfTwo(drop)
        r == m[3] % q
        kept == <<m[1], m[2], m[3] - r>>
        odd == IF drop = 22 THEN m[2] % 2 = 1 ELSE (m[3] \div q) % 2 = 1
        up == IF drop = 0
                  THEN frac = 3 \/ (frac = 2 /\ odd)
                  ELSE \/ 2 * r > q
                       \/ 2 * r = q /\ (frac # 0 \/ odd)
    IN  IF up THEN MagAdd(kept, <<0, q \div LimbBase, q % LimbBase>>) ELSE kept

FloatZero == <<1, MagZero>>
FloatNeg(x) == <<0 - x[1], x[2]>>
FloatAbs(x) == <<1, x[2]>>

\* x + y
FloatAdd(x, y) ==
    << IF x[1] = y[1] \/ ~MagLess(x[2], y[2]) THEN x[1] ELSE y[1],
       MagRound(IF x[1] = y[1] THEN MagAdd(x[2], y[2])
                ELSE IF MagLess(x[2], y[2]) THEN MagSub(y[2], x[2])
                ELSE MagSub(x[2], y[2]),
                0) >>

\* x - y
FloatSub(x, y) == FloatAdd(x, FloatNeg(y))

\* x < 0, x > y
FloatNegative(x) == x[1] = -1 /\ x[2] # MagZero
FloatGreater(x, y) ==
    IF x[1] = 1 /\ y[1] = 1 THEN MagLess(y[2], x[2])
    ELSE IF x[1] = -1 /\ y[1] = -1 THEN MagLess(x[2], y[2])
    ELSE x[1] = 1 /\ (x[2] # MagZero \/ y[2] # MagZero)

DigitValue(c) ==
    CASE c = "0" -> 0 [] c = "1" -> 1 [] c = "2" -> 2 [] c = "3" -> 3 [] c = "4" -> 4
      [] c = "5" -> 5 [] c = "6" -> 6 [] c = "7" -> 7 [] c = "8" -> 8 [] c = "9" -> 9

RECURSIVE DigitsValue(_)
DigitsValue(ds) ==
    IF ds = <<>> THEN 0
    ELSE 10 * DigitsValue(SubSeq(ds, 1, Len(ds) - 1)) + DigitValue(ds[Len(ds)])

RECURSIVE PowerOfTen(_)
PowerOfTen(n) == IF n = 0 THEN 1 ELSE 10 * PowerOfTen(n - 1)

\* numerator / denominator in units of 2^-46: the quotient's limbs and what is
\* left of a unit (0 nothing, 1 below one half, 2 one half, 3 above one half)
MagDivide(numerator, denominator) ==
    LET a0 == 4 * numerator
        r1 == a0 % denominator
        r2 == (r1 * LimbBase) % denominator
        r3 == (r2 * LimbBase) % denominator
    IN  [ mag |-> <<a0 \div denominator, (r1 * LimbBase) \div denominator,
                    (r2 * LimbBase) \div denominator>>,
          frac |-> IF r3 = 0 THEN 0
                   ELSE IF 2 * r3 < denominator THEN 1
                   ELSE IF 2 * r3 = denominator THEN 2
                   ELSE 3 ]

FloatError == [ok |-> FALSE, f |-> FloatZero]

\* the double nearest to the quotient d, with its sign
RoundedFloat(negative, d) ==
    [ok |-> TRUE, f |-> <<IF negative THEN -1 ELSE 1, MagRound(d.mag, d.frac)>>]

\* the float of digits with the point places from their end
FloatOfDigits(negative, digits, places) ==
    IF digits = <<>> \/ \E i \in 1..Len(digits) : ~IsDigit(digits[i])
        THEN FloatError
        ELSE RoundedFloat(negative, MagDivide(DigitsValue(digits), PowerOfTen(places)))

FloatOfSplit(negative, body, point) ==
    FloatOfDigits(negative,
                  IF point = -1 THEN body
                  ELSE Slice(body, 0, point) \o SliceFrom(body, point + 1),
                  IF point = -1 THEN 0 ELSE Len(body) - point - 1)

FloatOfUnsigned(negative, body) == FloatOfSplit(negative, body, Find(body, <<".">>))

FloatOfSigned(t, signed) ==
    FloatOfUnsigned(signed /\ t[1] = "-", IF signed THEN SliceFrom(t, 1) ELSE t)

FloatOfStripped(t) == FloatOfSigned(t, Len(t) > 0 /\ t[1] \in {"-", "+"})

\* float(s) for a str s: white space stripped, an optional sign, digits with an
\* optional point; anything else raises ValueError ([ok |-> FALSE])
FloatOfString(s) == FloatOfStripped(Strip(s))

FloatV(f) == [k |-> "float", v |-> f]

\* the digits of 2^1024 - 2^970, the least int that float() does not convert:
\* it lies half way between the largest double and 2^1024
FloatOverflowDigits ==
    << "1", "7", "9", "7", "6", "9", "3", "1", "3", "4", "8", "6", "2", "3", "1", "5",
       "8", "0", "7", "9", "3", "7", "2", "8", "9", "7", "1", "4", "0", "5", "3", "0",
       "3", "4", "1", "5", "0", "7", "9", "9", "3", "4", "1", "3", "2", "7", "1", "0",
       "0", "3", "7", "8", "2", "6", "9", "3", "6", "1", "7", "3", "7", "7", "8", "9",
       "8", "0", "4", "4", "4", "9", "6", "8", "2", "9", "2", "7", "6", "4", "7", "5",
       "0", "9", "4", "6", "6", "4", "9", "0", "1", "7", "9", "7", "7", "5", "8", "7",
       "2", "0", "7", "0", "9", "6", "3", "3", "0", "2", "8", "6", "4", "1", "6", "6",
       "9", "2", "8", "8", "7", "9", "1", "0", "9", "4", "6", "5", "5", "5", "5", "4",
       "7", "8", "5", "1", "9", "4", "0", "4", "0", "2", "6", "3", "0", "6", "5", "7",
       "4", "8", "8", "6", "7", "1", "5", "0", "5", "8", "2", "0", "6", "8", "1", "9",
       "0", "8", "9", "0", "2", "0", "0", "0", "7", "0", "8", "3", "8", "3", "6", "7",
       "6", "2", "7", "3", "8", "5", "4", "8", "4", "5", "8", "1", "7", "7", "1", "1",
       "5", "3", "1", "7", "6", "4", "4", "7", "5", "7", "3", "0", "2", "7", "0", "0",
       "6", "9", "8", "5", "5", "5", "7", "1", "3", "6", "6", "9", "5", "9", "6", "2",
       "2", "8", "4", "2", "9", "1", "4", "8", "1", "9", "8", "6", "0", "8", "3", "4",
       "9", "3", "6", "4", "7", "5", "2", "9", "2", "7", "1", "9", "0", "7", "4", "1",
       "6", "8", "4", "4", "4", "3", "6", "5", "5", "1", "0", "7", "0", "4", "3", "4",
       "2", "7", "1", "1", "5", "5", "9", "6", "9", "9", "5", "0", "8", "0", "9", "3",
       "0", "4", "2", "8", "8", "0", "1", "7", "7", "9", "0", "4", "1", "7", "4", "4",
       "9", "7", "7", "9", "2" >>

\* a and b are digits of equal length, and a is the smaller number
RECURSIVE DigitsLess(_, _)
DigitsLess(a, b) ==
    /\ a # <<>>
    /\ \/ DigitValue(a[1]) < DigitValue(b[1])
       \/ a[1] = b[1] /\ DigitsLess(Tail(a), Tail(b))

\* the digits are those of an int of at least 2^1024 - 2^970
DigitsOverflow(digits) ==
    /\ digits # <<>>
    /\ \A i \in 1..Len(digits) : IsDigit(digits[i])
    /\ \/ Len(digits) > Len(FloatOverflowDigits)
       \/ Len(digits) = Len(FloatOverflowDigits) /\ ~DigitsLess(digits, FloatOverflowDigits)

\* float(x) raises OverflowError ("int too large to convert to float"): x is an
\* int, the value of a JSON number without fraction or exponent, that is too large
\* for a double.  The handlers of lines 119, 141, 151, 169 and 190 catch
\* (ValueError, TypeError) only, so this exception leaves them
FloatOverflows(x) ==
    /\ x.k = "num"
    /\ DigitsOverflow(IF Len(x.v) > 0 /\ x.v[1] = "-" THEN Tail(x.v) ELSE x.v)

\* float(x): ValueError and TypeError are [ok |-> FALSE]; where float(x) raises
\* OverflowError, FloatOverflows(x), there is no float either
FloatOf(x) ==
    IF x.k = "float" THEN [ok |-> TRUE, f |-> x.v]
    ELSE IF FloatOverflows(x) THEN FloatError
    ELSE IF x.k \in {"str", "num", "bool"}
        THEN FloatOfString(IF x.k # "bool" THEN x.v ELSE IF x.v THEN <<"1">> ELSE <<"0">>)
    ELSE FloatError

\* the truth value of x
Truthy(x) ==
    IF x.k = "null" THEN FALSE
    ELSE IF x.k = "bool" THEN x.v
    ELSE IF x.k = "num" THEN \E i \in DOMAIN x.v : IsDigit(x.v[i]) /\ x.v[i] # "0"
    ELSE IF x.k = "float" THEN x.v[2] # MagZero
    ELSE IF x.k \in {"str", "list"} THEN Len(x.v) > 0
    ELSE DOMAIN x.v # {}

\* x or y
PyOr(x, y) == IF Truthy(x) THEN x ELSE y

NoneWord == <<"N", "o", "n", "e">>

\* x is not None and x != "None"
NotNoneMarker(x) == x.k # "null" /\ x # StrV(NoneWord)

\* str(x) for a str or a JSON number, the values a upc field takes in the model
StrOf(x) == IF x.k \in {"str", "num"} THEN x.v ELSE <<>>

-----------------------------------------------------------------------------
(* Claims about the response repair, checked under SpecRepair.             *)

ItemsName == <<"i", "t", "e", "m", "s">>

\* the text _parse_json_response parses first
CleanedInput == CleanMarkdown(raw_response)

ValidObjectText(t) == JsonLoads(t).ok /\ IsDict(JsonLoads(t).v)

\* the value of item n of ItemsDoc and WrappedItemsDoc: {"a": 1}, {"b": 2}, ...
ItemValue(n) == DictV(<<ItemKeyChars[n]>> :> NumV(<<ItemDigitChars[n]>>))

\* the value of ItemsDoc(n)
ItemsDocValue(n) == DictV(ItemsName :> ListV([i \in 1..n |-> ItemValue(i)]))

\* C1: an input that is, after fence stripping and trimming, a valid JSON object
\* is returned as the structure a direct parse of it gives, and
\* _fix_json_response is not executed for it.
C1_ValidObjectUnrepaired ==
    ValidObjectText(CleanedInput) =>
        /\ fix_calls = 0
        /\ rpc \in {"start", "cleaned", "returned"}
        /\ rpc = "returned" =>
              /\ parsed = JsonLoads(CleanedInput).v
              /\ \A n \in 0..MaxItemObjects :
                    CleanedInput = ItemsDoc(n) => parsed = ItemsDocValue(n)

\* a fenced valid object that the repair heuristics would have changed is returned
C1_Witness ==
    /\ rpc = "returned"
    /\ ValidObjectText(CleanedInput)
    /\ raw_response # CleanedInput
    /\ FixJsonResponse(CleanedInput) # CleanedInput
    /\ Len(Get(parsed, ItemsName).v) = MaxItemObjects

\* C2: a call ends in exactly one of three ways: a mapping is returned, or
\* MalformedResponse (the repaired text does not parse), or UnexpectedShape (the
\* parsed result is no object); a non-mapping is never returned.
C2_MappingOrError ==
    rpc \in RepairTerminal =>
        \/ rpc = "returned" /\ IsDict(parsed)
        \/ rpc = "MalformedResponse" /\ ~JsonLoads(cleaned_response).ok
        \/ /\ rpc = "UnexpectedShape"
           /\ JsonLoads(cleaned_response).ok
           /\ ~IsDict(JsonLoads(cleaned_response).v)

\* text is document d cut inside its items array: after the opening bracket and
\* before the closing one
CutInsideItems(text, d) ==
    LET open == Find(d, ItemsKey) + 10
        close == ParseValue(d, open).i - 1
    IN  /\ Len(text) >= open
        /\ Len(text) < close
        /\ text = SubSeq(d, 1, Len(text))

\* the elements of the array opening at d[open] that end at or before position cut
RECURSIVE ElementsBefore(_, _, _, _)
ElementsBefore(d, i, cut, acc) ==
    LET r == ParseValue(d, SkipWs(d, i))
        e == SkipWs(d, r.i)
    IN  IF ~r.ok \/ r.i - 1 > cut THEN acc
        ELSE IF At(d, e) = "," THEN ElementsBefore(d, e + 1, cut, Append(acc, r.v))
        ELSE Append(acc, r.v)

CompleteItems(text, d) == ElementsBefore(d, Find(d, ItemsKey) + 11, Len(text), <<>>)

\* C3: an object cut inside its items array, after at least one complete item
\* object, is repaired to a record whose items are exactly the item objects
\* complete before the cut, in their order.
C3_TruncatedArrayRecovery ==
    rpc \in RepairTerminal =>
        \A d \in ItemDocuments :
            (CutInsideItems(CleanedInput, d) /\ CompleteItems(CleanedInput, d) # <<>>) =>
                /\ rpc = "returned"
                /\ IsDict(parsed)
                /\ Get(parsed, ItemsName) = ListV(CompleteItems(CleanedInput, d))

\* C4: an object cut inside its items array before any item is complete is
\* repaired to a record whose items value is the empty sequence.
C4_EmptyArrayFallback ==
    rpc \in RepairTerminal =>
        \A d \in ItemDocuments :
            (CutInsideItems(CleanedInput, d) /\ CompleteItems(CleanedInput, d) = <<>>) =>
                /\ rpc = "returned"
                /\ IsDict(parsed)
                /\ Get(parsed, ItemsName) = ListV(<<>>)

\* C5: the text _fix_json_response hands to the second parse has as many "{" as
\* "}" and as many "[" as "]".
C5_BraceBalance ==
    rpc = "fixed" =>
        /\ Count(cleaned_response, "{") = Count(cleaned_response, "}")
        /\ Count(cleaned_response, "[") = Count(cleaned_response, "]")

\* t inside a markdown fence, with and without the json language tag
TaggedFence(t) == FenceJson \o <<"\n">> \o t \o <<"\n">> \o Fence
BareFence(t) == Fence \o <<"\n">> \o t \o <<"\n">> \o Fence

\* C20: a valid JSON object text inside a markdown fence, with or without the
\* json language tag, is parsed to the structure a direct parse of the text gives.
C20_FenceStripping ==
    rpc \in RepairTerminal =>
        \A d \in Documents :
            (ValidObjectText(d) /\ raw_response \in {TaggedFence(d), BareFence(d)}) =>
                /\ rpc = "returned"
                /\ parsed = JsonLoads(d).v

\* the text after the last comma of text, stripped
AfterLastComma(text) == Strip(SliceFrom(text, RFind(text, <<",">>) + 1))

\* s opens a quoted value that it does not close
UnterminatedQuote(s) == StartsWith(s, <<"\"">>) /\ Count(s, "\"") % 2 = 1

\* d without its last character
WithoutLast(d) == SubSeq(d, 1, Len(d) - 1)

\* C21: the repair of a dangling field (lines 167-180) changes the text only
\* when the text after the last comma is a quoted value that is not
\* terminated; an object that lacks nothing but its closing brace, its last
\* field a terminated string, is returned with every value it has.
C21_DanglingFieldRepair ==
    /\ rpc = "fixing" =>
          (FixTruncatedString(CloseBraces(cleaned_response)) # CloseBraces(cleaned_response)
              => UnterminatedQuote(AfterLastComma(CloseBraces(cleaned_response))))
    /\ rpc \in RepairTerminal =>
          \A d \in Documents :
              (/\ ValidObjectText(d)
               /\ CleanedInput = WithoutLast(d)
               /\ EndsWith(CleanedInput, <<"\"">>))
              => /\ rpc = "returned"
                 /\ parsed = JsonLoads(d).v

\* the index, in the text after "items": [, of the bracket the scan of lines
\* 190-201 finds closing the array, or -1 (no "items": [ to scan, or no bracket)
ArrayEndIn(text) ==
    IF Contains(text, ItemsKey) /\ Find(text, ItemsKey) > 0
        THEN ScanArrayEnd(SliceFrom(text, Find(text, ItemsKey) + 10), 0, 1)
        ELSE -1

\* the text of the items array, from its opening to its closing bracket
ArrayText(text) ==
    Slice(text, Find(text, ItemsKey) + 9, Find(text, ItemsKey) + 10 + ArrayEndIn(text) + 1)

\* C22: when the scan from the opening bracket of "items": [ finds the
\* matching closing bracket in the text given to _fix_json_response, the text
\* it returns has the same items array, character for character.
C22_CompleteArrayUntouched ==
    (rpc = "fixed" /\ ArrayEndIn(CleanedInput) # -1) =>
        /\ ArrayEndIn(cleaned_response) # -1
        /\ ArrayText(cleaned_response) = ArrayText(CleanedInput)

-----------------------------------------------------------------------------
(* InvoiceValidator, src/validators.py.  A finding is <<tag, argument>>:   *)
(* "missing_section: vendor" is <<"missing_section", K_vendor>>,           *)
(* "totals_mismatch" is <<"totals_mismatch", <<>> >>.                      *)

K_vendor == <<"v", "e", "n", "d", "o", "r">>
K_invoice == <<"i", "n", "v", "o", "i", "c", "e">>
K_account == <<"a", "c", "c", "o", "u", "n", "t">>
K_vendor_name == <<"v", "e", "n", "d", "o", "r", "_", "n", "a", "m", "e">>
K_invoice_number == <<"i", "n", "v", "o", "i", "c", "e", "_", "n", "u", "m", "b", "e", "r">>
K_invoice_date == <<"i", "n", "v", "o", "i", "c", "e", "_", "d", "a", "t", "e">>
K_customer_number ==
    <<"c", "u", "s", "t", "o", "m", "e",
      "r", "_", "n", "u", "m", "b", "e", "r">>
K_account_number == <<"a", "c", "c", "o", "u", "n", "t", "_", "n", "u", "m", "b", "e", "r">>
K_upc == <<"u", "p", "c">>
K_qty == <<"q", "t", "y">>
K_bottles == <<"b", "o", "t", "t", "l", "e", "s">>
K_cases == <<"c", "a", "s", "e", "s">>
K_unit_price == <<"u", "n", "i", "t", "_", "p", "r", "i", "c", "e">>
K_discount == <<"d", "i", "s", "c", "o", "u", "n", "t">>
K_extended_amount ==
    <<"e", "x", "t", "e", "n", "d", "e",
      "d", "_", "a", "m", "o", "u", "n", "t">>
K_net_amount == <<"n", "e", "t", "_", "a", "m", "o", "u", "n", "t">>
K_deposit == <<"d", "e", "p", "o", "s", "i", "t">>
K_total_sales == <<"t", "o", "t", "a", "l", "_", "s", "a", "l", "e", "s">>
K_total_discount == <<"t", "o", "t", "a", "l", "_", "d", "i", "s", "c", "o", "u", "n", "t">>
K_gross_total == <<"g", "r", "o", "s", "s", "_", "t", "o", "t", "a", "l">>
K_pay_this_amount ==
    <<"p", "a", "y", "_", "t", "h", "i",
      "s", "_", "a", "m", "o", "u", "n", "t">>
K_total_bottles == <<"t", "o", "t", "a", "l", "_", "b", "o", "t", "t", "l", "e", "s">>
K_total_liquor_gallons ==
    <<"t", "o", "t", "a", "l", "_", "l", "i", "q", "u",
      "o", "r", "_", "g", "a", "l", "l", "o", "n", "s">>
K_total_beer_gallons ==
    <<"t", "o", "t", "a", "l", "_", "b", "e", "e",
      "r", "_", "g", "a", "l", "l", "o", "n", "s">>

Flag(tag, arg) == <<tag, arg>>

OverwriteFlags(flags, f) == <<f>>

PrependFlag(flags, f) == <<f>> \o flags

\* self.validation_flags.append(f)
AppendFlag(flags, f) == Append(flags, f)

DigitChars == <<"0", "1", "2", "3", "4", "5", "6", "7", "8", "9">>

\* str(n) for n >= 0
RECURSIVE DecimalChars(_)
DecimalChars(n) ==
    IF n < 10 THEN <<DigitChars[n + 1]>>
    ELSE DecimalChars(n \div 10) \o <<DigitChars[(n % 10) + 1]>>

\* f"item_{i}"
ItemLabel(i) == <<"i", "t", "e", "m", "_">> \o DecimalChars(i)

\* ''.join(filter(str.isdigit, str(upc)))
DigitsOf(upc) == SelectSeq(StrOf(upc), IsDigit)

\* _is_valid_upc, lines 195-207
IsValidUpc(upc) == Truthy(upc) /\ Len(DigitsOf(upc)) \in {8, 12}

\* _clean_upc, lines 209-216
CleanUpc(upc) == IF ~Truthy(upc) THEN StrV(<<>>) ELSE StrV(DigitsOf(upc))

RequiredSections == <<K_vendor, K_invoice, K_account, ItemsName>>

\* lines 62-65: a missing section is flagged and set to {}
RECURSIVE AddMissingSections(_, _, _)
AddMissingSections(d, flags, i) ==
    IF i > Len(RequiredSections) THEN [data |-> d, flags |-> flags]
    ELSE IF ~HasKey(d, RequiredSections[i])
        THEN AddMissingSections(Put(d, RequiredSections[i], EmptyDict),
                                AppendFlag(flags, Flag("missing_section", RequiredSections[i])),
                                i + 1)
        ELSE AddMissingSections(d, flags, i + 1)

LeaveStructure(d, flags) == [data |-> d, flags |-> flags]

\* lines 67-70: items that is no list is flagged and set to []
EnsureItemsList(st) ==
    IF ~IsList(Get(st.data, ItemsName))
        THEN [data |-> Put(st.data, ItemsName, ListV(<<>>)),
              flags |-> AppendFlag(st.flags, Flag("items_not_list", <<>>))]
        ELSE st

\* _validate_basic_structure, lines 58-70
ValidateBasicStructure(d, flags) == EnsureItemsList(AddMissingSections(d, flags, 1))

\* the required_fields of _validate_lakeshore, _validate_breakthru,
\* _validate_southern_glazers (lines 74-76, 84-86, 94-96); no check for another vendor
RequiredFields(v) ==
    IF v = "lakeshore" THEN <<K_vendor_name, K_invoice_number, K_invoice_date>>
    ELSE IF v = "breakthru" THEN <<K_vendor_name, K_invoice_number, K_customer_number>>
    ELSE IF v = "southern_glazers" THEN <<K_vendor_name, K_invoice_number, K_account_number>>
    ELSE <<>>

RECURSIVE CheckRequiredFields(_, _, _, _)
CheckRequiredFields(d, flags, fields, i) ==
    IF i > Len(fields) THEN flags
    ELSE IF ~Truthy(Get(d, fields[i]))
        THEN CheckRequiredFields(d, AppendFlag(flags, Flag("missing_required_field", fields[i])),
                                 fields, i + 1)
        ELSE CheckRequiredFields(d, flags, fields, i + 1)

\* lines 37-42 with 72-100
ValidateVendor(d, flags, v) == CheckRequiredFields(d, flags, RequiredFields(v), 1)

NotRaised(flags) == [flags |-> flags, raised |-> FALSE, error |-> "none"]

\* lines 109-111
CheckUpc(upc, i, flags) ==
    IF Truthy(upc) /\ ~IsValidUpc(upc)
        THEN AppendFlag(flags, Flag("invalid_upc_format", ItemLabel(i)))
        ELSE flags

\* lines 117-120: float(qty) did not raise and is below zero
NegativeFloat(r) == r.ok /\ FloatNegative(r.f)

\* lines 114-123
CheckQuantity(qty, i, flags) ==
    IF NotNoneMarker(qty) /\ NegativeFloat(FloatOf(qty))
        THEN AppendFlag(flags, Flag("negative_quantity", ItemLabel(i)))
        ELSE flags

\* line 114
QuantityOf(item) == PyOr(PyOr(Get(item, K_qty), Get(item, K_bottles)), Get(item, K_cases))

\* lines 109-123, for the item at 0-based position i
CheckItem(item, i, flags) ==
    CheckQuantity(QuantityOf(item), i, CheckUpc(Get(item, K_upc), i, flags))

\* lines 115-118: float(qty) raises OverflowError, which line 119 does not catch
QuantityOverflows(item) ==
    NotNoneMarker(QuantityOf(item)) /\ FloatOverflows(QuantityOf(item))

\* lines 108-123, from the item at 0-based position i on.  item.get on an item that
\* is no dict raises AttributeError, and float(qty) may raise OverflowError after
\* the item's upc was checked: raised, with the flags appended so far
RECURSIVE CheckItems(_, _, _)
CheckItems(items, i, flags) ==
    IF i >= Len(items) THEN NotRaised(flags)
    ELSE IF ~IsDict(items[i + 1])
        THEN [flags |-> flags, raised |-> TRUE, error |-> items[i + 1].k]
    ELSE IF QuantityOverflows(items[i + 1])
        THEN [flags |-> CheckUpc(Get(items[i + 1], K_upc), i, flags),
              raised |-> TRUE, error |-> "overflow"]
    ELSE CheckItems(items, i + 1, CheckItem(items[i + 1], i, flags))

\* lines 140-142: float(extended_amount) is added unless it raised
AddFloat(calculated_total, r) ==
    IF r.ok THEN FloatAdd(calculated_total, r.f) ELSE calculated_total

\* lines 138-142
AddAmount(calculated_total, extended_amount) ==
    IF NotNoneMarker(extended_amount)
        THEN AddFloat(calculated_total, FloatOf(extended_amount))
        ELSE calculated_total

\* lines 135-142
RECURSIVE CalculatedTotal(_, _, _)
CalculatedTotal(items, i, calculated_total) ==
    IF i > Len(items) THEN calculated_total
    ELSE CalculatedTotal(items, i + 1,
             AddAmount(calculated_total,
                       PyOr(Get(items[i], K_extended_amount), Get(items[i], K_net_amount))))

\* abs(x) > tolerance, tolerance = 0.01 (lines 148-149).  The double 0.01 is
\* 0x1.47ae147ae147bp-7, which lies strictly between floor(2^46 / 100) and
\* floor(2^46 / 100) + 1 units, and x is a whole number of units
ExceedsTolerance(x) == MagLess(MagDivide(1, 100).mag, FloatAbs(x)[2])

\* d.get("items", [])
ItemsOf(d) == IF HasKey(d, ItemsName) THEN Get(d, ItemsName) ELSE ListV(<<>>)

\* lines 147-152, r being float(invoice_total)
CompareTotals(calculated_total, r, flags) ==
    IF ~r.ok THEN AppendFlag(flags, Flag("invalid_invoice_total", <<>>))
    ELSE IF ExceedsTolerance(FloatSub(calculated_total, r.f))
        THEN AppendFlag(flags, Flag("totals_mismatch", <<>>))
    ELSE flags

\* lines 145-152
CheckInvoiceTotal(calculated_total, invoice_total, flags) ==
    IF NotNoneMarker(invoice_total)
        THEN CompareTotals(calculated_total, FloatOf(invoice_total), flags)
        ELSE flags

\* _validate_totals, lines 128-152
ValidateTotals(d, flags) ==
    IF ~Truthy(ItemsOf(d)) THEN flags
    ELSE CheckInvoiceTotal(CalculatedTotal(ItemsOf(d).v, 1, FloatZero),
                           PyOr(Get(d, K_total_sales), Get(d, K_gross_total)),
                           flags)

\* line 136
AmountOf(item) == PyOr(Get(item, K_extended_amount), Get(item, K_net_amount))

\* line 145
InvoiceTotalOf(d) == PyOr(Get(d, K_total_sales), Get(d, K_gross_total))

\* lines 140 and 148: one of the float() calls of _validate_totals raises
\* OverflowError, which lines 141 and 151 do not catch
TotalsOverflow(d) ==
    \/ \E i \in 1..Len(ItemsOf(d).v) :
          NotNoneMarker(AmountOf(ItemsOf(d).v[i])) /\ FloatOverflows(AmountOf(ItemsOf(d).v[i]))
    \/ NotNoneMarker(InvoiceTotalOf(d)) /\ FloatOverflows(InvoiceTotalOf(d))

\* line 126, reached when the loop over the items has not raised.  _validate_totals
\* appends its finding after its last float() call, so it leaves none when it raises
TotalsAfterItems(d, checked) ==
    IF checked.raised THEN checked
    ELSE IF TotalsOverflow(d)
        THEN [flags |-> checked.flags, raised |-> TRUE, error |-> "overflow"]
    ELSE NotRaised(ValidateTotals(d, checked.flags))

\* _validate_business_rules, lines 102-126
ValidateBusinessRules(d, flags) ==
    IF ~Truthy(ItemsOf(d)) THEN NotRaised(flags)
    ELSE TotalsAfterItems(d, CheckItems(ItemsOf(d).v, 0, flags))

NumericFields ==
    <<K_total_sales, K_total_discount, K_gross_total, K_net_amount, K_pay_this_amount,
      K_total_bottles, K_total_liquor_gallons, K_total_beer_gallons>>

NumericItemFields ==
    <<K_qty, K_bottles, K_cases, K_unit_price, K_discount, K_extended_amount,
      K_net_amount, K_deposit>>

\* lines 167-171 (report = TRUE) and 188-191 (report = FALSE), r being float(value)
StoreFloat(st, field, report, r) ==
    IF r.ok THEN [data |-> Put(st.data, field, FloatV(r.f)), flags |-> st.flags]
    ELSE [data |-> Put(st.data, field, NoneV),
          flags |-> IF report
                        THEN AppendFlag(st.flags, Flag("invalid_numeric_field", field))
                        ELSE st.flags]

\* lines 166-171 and 187-191: a field that is present and no None marker becomes
\* float(value), or None when float raises
ConvertField(st, field, report) ==
    IF HasKey(st.data, field) /\ NotNoneMarker(Get(st.data, field))
        THEN StoreFloat(st, field, report, FloatOf(Get(st.data, field)))
        ELSE st

\* lines 165-171 and 186-191
RECURSIVE ConvertFields(_, _, _, _)
ConvertFields(st, fields, i, report) ==
    IF i > Len(fields) THEN st
    ELSE ConvertFields(ConvertField(st, fields[i], report), fields, i + 1, report)

\* lines 177-178
CleanItemUpc(item) ==
    IF HasKey(item, K_upc) /\ Truthy(Get(item, K_upc))
        THEN Put(item, K_upc, CleanUpc(Get(item, K_upc)))
        ELSE item

\* lines 165-168 and 186-189: the position, from i on, of the first of the fields
\* whose float() raises OverflowError, which lines 169 and 190 do not catch;
\* Len(fields) + 1 when there is none
RECURSIVE OverflowAt(_, _, _)
OverflowAt(d, fields, i) ==
    IF i > Len(fields) THEN i
    ELSE IF HasKey(d, fields[i]) /\ NotNoneMarker(Get(d, fields[i]))
            /\ FloatOverflows(Get(d, fields[i]))
        THEN i
    ELSE OverflowAt(d, fields, i + 1)

\* the fields that are converted: all of them, or those before the one that raises
FieldsBefore(fields, n) == SubSeq(fields, 1, n - 1)

ItemOverflows(item) == OverflowAt(item, NumericItemFields, 1) <= Len(NumericItemFields)

\* lines 176-191: one item, changed in place
ConvertItem(item) ==
    ConvertFields([data |-> CleanItemUpc(item), flags |-> <<>>],
                  FieldsBefore(NumericItemFields, OverflowAt(item, NumericItemFields, 1)),
                  1, FALSE).data

\* lines 175-191: the items are converted in their order, up to and including the
\* first one that raises
ConvertItems(items) ==
    [i \in 1..Len(items) |->
        IF \E j \in 1..(i - 1) : ItemOverflows(items[j]) THEN items[i]
        ELSE ConvertItem(items[i])]

\* validated_data is a shallow copy (line 156): the items list and its dicts are
\* shared with data, so the items change in both
ShareItems(d, top, converted) ==
    IF HasKey(d, ItemsName)
        THEN [validated |-> Put(top.data, ItemsName, converted),
              data |-> Put(d, ItemsName, converted),
              flags |-> top.flags,
              raised |-> \E i \in 1..Len(ItemsOf(d).v) : ItemOverflows(ItemsOf(d).v[i])]
        ELSE [validated |-> top.data, data |-> d, flags |-> top.flags, raised |-> FALSE]

\* lines 165-171
ConvertInvoiceFields(d, flags) ==
    ConvertFields([data |-> d, flags |-> flags],
                  FieldsBefore(NumericFields, OverflowAt(d, NumericFields, 1)), 1, TRUE)

\* lines 156-171 raised: the copy is lost, data is as it was
InvoiceFieldRaised(d, top) ==
    [validated |-> top.data, data |-> d, flags |-> top.flags, raised |-> TRUE]

\* _validate_data_types, lines 154-193; raised when a float() call raised
\* OverflowError
ValidateDataTypes(d, flags) ==
    IF OverflowAt(d, NumericFields, 1) <= Len(NumericFields)
        THEN InvoiceFieldRaised(d, ConvertInvoiceFields(d, flags))
        ELSE ShareItems(d, ConvertInvoiceFields(d, flags), ListV(ConvertItems(ItemsOf(d).v)))

-----------------------------------------------------------------------------
(* The records given to validate_invoice.                                  *)

MaxItems == 2

Chars12 == <<"1", "2", "3", "4", "5", "6", "7", "8", "9", "0", "1", "2">>

\* "123456789012", "1234-5678-9012", "12345"
Upc12 == StrV(Chars12)
UpcDashed ==
    StrV(SubSeq(Chars12, 1, 4) \o <<"-">> \o SubSeq(Chars12, 5, 8) \o <<"-">>
         \o SubSeq(Chars12, 9, 12))
Upc5 == StrV(SubSeq(Chars12, 1, 5))

\* "50.00", "100.00", "100.01", "100.02", "abc"
Str50 == StrV(<<"5", "0", ".", "0", "0">>)
Str100 == StrV(<<"1", "0", "0", ".", "0", "0">>)
Str100_01 == StrV(<<"1", "0", "0", ".", "0", "1">>)
Str100_02 == StrV(<<"1", "0", "0", ".", "0", "2">>)
StrAbc == StrV(<<"a", "b", "c">>)

\* the JSON number 1 followed by 309 zeros: an int that float() does not convert
IntTooLarge == NumV(<<"1">> \o Repeat("0", Len(FloatOverflowDigits)))

\* the elements an items list is made of; the last one is no mapping
ItemPool ==
    << DictV(K_upc :> Upc12 @@ K_qty :> StrV(<<"2">>) @@ K_extended_amount :> Str50),
       DictV(K_upc :> UpcDashed @@ K_extended_amount :> NumV(<<"5", "0">>)),
       DictV(K_upc :> Upc5 @@ K_qty :> StrV(<<"-", "1">>) @@ K_net_amount :> Str100),
       DictV(K_qty :> NumV(<<"0">>) @@ K_bottles :> StrV(<<"-", "3">>)
             @@ K_extended_amount :> StrAbc @@ K_net_amount :> StrV(<<"7">>)),
       DictV(K_upc :> StrV(<<>>) @@ K_qty :> StrAbc @@ K_cases :> StrV(NoneWord)
             @@ K_unit_price :> StrV(<<"x">>)),
       DictV(K_upc :> UpcDashed @@ K_unit_price :> StrV(<<"5">>) @@ K_deposit :> IntTooLarge),
       NumV(<<"7">>) >>

RECURSIVE SeqsUpTo(_, _)
SeqsUpTo(S, n) ==
    IF n = 0 THEN {<<>>}
    ELSE SeqsUpTo(S, n - 1)
         \cup {Append(q, x) : q \in {r \in SeqsUpTo(S, n - 1) : Len(r) = n - 1}, x \in S}

ItemLists == {[i \in 1..Len(q) |-> ItemPool[q[i]]] : q \in SeqsUpTo(1..Len(ItemPool), MaxItems)}

\* total_sales and gross_total: absent where the key is missing from the function
TotalsPool ==
    { <<>>,
      K_total_sales :> Str100,
      K_total_sales :> Str100_01,
      K_total_sales :> Str100_02,
      K_total_sales :> NumV(<<"0">>),
      K_total_sales :> StrAbc,
      K_total_sales :> StrV(NoneWord) @@ K_gross_total :> Str100,
      K_total_sales :> NumV(<<"1", "0", "0", ".", "0", "1">>) @@ K_gross_total :> StrAbc,
      K_total_sales :> StrAbc @@ K_total_discount :> IntTooLarge
          @@ K_pay_this_amount :> Str50 }

\* records that differ in their items and totals
ItemRecords == {DictV(t @@ (ItemsName :> ListV(items))) : t \in TotalsPool, items \in ItemLists}

SectionsPool ==
    { <<>>,
      K_vendor :> EmptyDict @@ K_invoice :> EmptyDict @@ K_account :> EmptyDict
          @@ ItemsName :> ListV(<<>>),
      ItemsName :> StrAbc,
      K_vendor :> DictV(K_vendor_name :> StrAbc) @@ ItemsName :> ListV(<<ItemPool[1]>>),
      K_account :> NoneV @@ ItemsName :> EmptyDict }

VendorFieldsPool ==
    { <<>>,
      K_vendor_name :> StrAbc @@ K_invoice_number :> NumV(<<"7">>)
          @@ K_invoice_date :> StrAbc @@ K_customer_number :> StrAbc
          @@ K_account_number :> StrAbc,
      K_vendor_name :> StrV(<<>>) @@ K_invoice_number :> StrAbc @@ K_invoice_date :> NoneV
          @@ K_account_number :> NumV(<<"0">>) }

\* records that differ in their sections and vendor fields
SectionRecords == {DictV(f @@ g) : f \in SectionsPool, g \in VendorFieldsPool}

Records == ItemRecords \cup SectionRecords

Vendors == {"lakeshore", "breakthru", "southern_glazers"}

-----------------------------------------------------------------------------
(* validate_invoice, lines 19-56, as a state machine.                      *)

InitValidate == RepairIdle /\ ValidatorIdle /\ PipelineIdle

\* line 30: the call begins, the flags are reset
CallValidate ==
    /\ vpc = "idle"
    /\ \E d \in Records, v \in Vendors :
          /\ data' = d
          /\ data_in' = d
          /\ vendor' = v
    /\ validation_flags' = <<>>
    /\ flags_at_step' = << <<>> >>
    /\ vpc' = "structure"
    /\ UNCHANGED validated_data
    /\ UNCHANGED <<repairVars, pipelineVars>>

\* the step has left the record r.data and the findings r.flags
Normalized(r) ==
    /\ data' = r.data
    /\ validation_flags' = r.flags
    /\ flags_at_step' = Append(flags_at_step, r.flags)

\* line 34
StepStructure ==
    /\ vpc = "structure"
    /\ Normalized(ValidateBasicStructure(data, validation_flags))
    /\ vpc' = "vendor"
    /\ UNCHANGED <<vendor, validated_data, data_in>>
    /\ UNCHANGED <<repairVars, pipelineVars>>

Recorded(flags) ==
    /\ validation_flags' = flags
    /\ flags_at_step' = Append(flags_at_step, flags)

\* lines 37-42
StepVendor ==
    /\ vpc = "vendor"
    /\ Recorded(ValidateVendor(data, validation_flags, vendor))
    /\ vpc' = "business"
    /\ UNCHANGED <<data, vendor, validated_data, data_in>>
    /\ UNCHANGED <<repairVars, pipelineVars>>

\* an exception is caught at lines 53-56: validation_error is appended and the
\* exception raised again
RuleChecked(r) ==
    /\ Recorded(IF r.raised
                    THEN AppendFlag(r.flags, Flag("validation_error", <<r.error>>))
                    ELSE r.flags)
    /\ vpc' = IF r.raised THEN "raised" ELSE "types"

\* line 45, with lines 53-56
StepBusinessRules ==
    /\ vpc = "business"
    /\ RuleChecked(ValidateBusinessRules(data, validation_flags))
    /\ UNCHANGED <<data, vendor, validated_data, data_in>>
    /\ UNCHANGED <<repairVars, pipelineVars>>

\* _validate_data_types has returned (lines 48-51), or it has raised: lines 53-56
Coerced(r) ==
    /\ data' = r.data
    /\ validated_data' = IF r.raised THEN validated_data ELSE r.validated
    /\ Recorded(IF r.raised
                    THEN AppendFlag(r.flags, Flag("validation_error", <<"overflow">>))
                    ELSE r.flags)
    /\ vpc' = IF r.raised THEN "raised" ELSE "returned"

\* lines 48-51, with lines 53-56
StepDataTypes ==
    /\ vpc = "types"
    /\ Coerced(ValidateDataTypes(data, validation_flags))
    /\ UNCHANGED <<vendor, data_in>>
    /\ UNCHANGED <<repairVars, pipelineVars>>

NextValidate ==
    CallValidate \/ StepStructure \/ StepVendor \/ StepBusinessRules \/ StepDataTypes

SpecValidate == InitValidate /\ [][NextValidate]_vars

-----------------------------------------------------------------------------
(* The validator's properties, under SpecValidate.                         *)

Findings == {validation_flags[i] : i \in 1..Len(validation_flags)}

\* the items of the record as it was given to validate_invoice
ItemsGiven == IF IsList(ItemsOf(data_in)) THEN ItemsOf(data_in).v ELSE <<>>

StructureDone == vpc \in {"vendor", "business", "types", "returned", "raised"}
BusinessRulesDone == vpc \in {"types", "returned", "raised"}

\* C6: validate_invoice does not raise, whatever the record's fields hold, an
\* items list with elements that are no mappings included.
C6_NeverRaises == vpc # "raised"

SectionNames == {K_vendor, K_invoice, K_account, ItemsName}

\* C7: after _validate_basic_structure the sections vendor, invoice, account and
\* items are present and items is a list; each section absent from the input has
\* its "missing_section" finding; {} yields items = [] and "missing_section: items".
C7_StructureNormalized ==
    StructureDone =>
        /\ \A name \in SectionNames : HasKey(data, name)
        /\ IsList(Get(data, ItemsName))
        /\ \A name \in SectionNames :
              ~HasKey(data_in, name) =>
                  \E i \in 1..Len(flags_at_step[2]) :
                      flags_at_step[2][i] = <<"missing_section", name>>
        /\ data_in = EmptyDict =>
              /\ vpc = "vendor" => Get(data, ItemsName) = ListV(<<>>)
              /\ <<"missing_section", ItemsName>> \in Findings

\* {} has been normalized
C7_Witness ==
    /\ vpc = "vendor"
    /\ data_in = EmptyDict
    /\ Get(data, ItemsName) = ListV(<<>>)
    /\ Len(validation_flags) >= 4

\* the exact value, in cents, of a decimal with at most two fraction digits
Cents(x) ==
    LET t == Strip(x.v)
        signed == Len(t) > 0 /\ t[1] \in {"-", "+"}
        body == IF signed THEN SliceFrom(t, 1) ELSE t
        point == Find(body, <<".">>)
        whole == IF point = -1 THEN body ELSE Slice(body, 0, point)
        fraction == IF point = -1 THEN <<>> ELSE SliceFrom(body, point + 1)
        padded == SubSeq(fraction \o <<"0", "0">>, 1, 2)
        n == DigitsValue(whole \o padded)
    IN  IF signed /\ t[1] = "-" THEN 0 - n ELSE n

IsDecimal(x) == x.k \in {"str", "num"} /\ FloatOfString(x.v).ok

\* the first present of two fields
FirstPresent(d, a, b) == IF HasKey(d, a) /\ Get(d, a) # NoneV THEN Get(d, a) ELSE Get(d, b)

\* the sum, in cents, of the items' amounts; an unparsable amount counts zero
RECURSIVE SumCents(_, _)
SumCents(items, i) ==
    IF i > Len(items) THEN 0
    ELSE LET amount == FirstPresent(items[i], K_extended_amount, K_net_amount)
         IN  (IF IsDecimal(amount) THEN Cents(amount) ELSE 0) + SumCents(items, i + 1)

InvoiceTotal == FirstPresent(data_in, K_total_sales, K_gross_total)

Distance(a, b) == IF a >= b THEN a - b ELSE b - a

\* C8: with a non-empty items list and a present, parsable, non-zero invoice total,
\* "totals_mismatch" is recorded if and only if the sum of the items' amounts and
\* the invoice total differ by more than 0.01: 100.00 against 100.01 is no
\* mismatch, 100.00 against 100.02 is one.
C8_TotalsTolerance ==
    (/\ vpc \in {"types", "returned"}
     /\ ItemsGiven # <<>>
     /\ IsDecimal(InvoiceTotal)
     /\ Cents(InvoiceTotal) # 0) =>
        (<<"totals_mismatch", <<>> >> \in Findings
            <=> Distance(SumCents(ItemsGiven, 1), Cents(InvoiceTotal)) > 1)

DigitCount(s) == Cardinality({j \in 1..Len(s) : IsDigit(s[j])})

\* C9: for the item at zero-based position i with a present, non-empty upc,
\* "invalid_upc_format: item_i" is recorded if and only if the upc holds neither 8
\* nor 12 digit characters.
C9_UpcFormat ==
    BusinessRulesDone =>
        \A i \in 0..(Len(ItemsGiven) - 1) :
            LET item == ItemsGiven[i + 1]
            IN  (/\ IsDict(item)
                 /\ HasKey(item, K_upc)
                 /\ Get(item, K_upc).k = "str"
                 /\ Get(item, K_upc).v # <<>>) =>
                    (<<"invalid_upc_format", ItemLabel(i)>> \in Findings
                        <=> DigitCount(Get(item, K_upc).v) \notin {8, 12})

IsPrefix(s, t) == Len(s) <= Len(t) /\ s = SubSeq(t, 1, Len(s))

\* the steps of the pass that recorded a finding
StepsWithFindings ==
    {i \in 2..Len(flags_at_step) : flags_at_step[i] # flags_at_step[i - 1]}

\* C10: from the reset on, each step of validate_invoice only appends: the
\* findings as they were after every earlier step are a prefix of the findings
\* now, and a record failing three checks ends with at least three findings.
C10_AppendOnly ==
    /\ \A i \in 1..Len(flags_at_step) : IsPrefix(flags_at_step[i], validation_flags)
    /\ Len(validation_flags) >= Cardinality(StepsWithFindings)

\* a pass has returned in which each of the four steps recorded a finding
C10_Witness ==
    /\ vpc = "returned"
    /\ Cardinality(StepsWithFindings) = 4
    /\ <<"invalid_upc_format", ItemLabel(0)>> \in Findings

\* C14: _validate_data_types leaves the record it was given, every item mapping
\* of its items list included, with the values it had before the call.
C14_InputNotMutated == [][vpc = "types" => data' = data]_vars

InvoiceNumericNames ==
    {K_total_sales, K_total_discount, K_gross_total, K_net_amount, K_pay_this_amount,
     K_total_bottles, K_total_liquor_gallons, K_total_beer_gallons}

ItemNumericNames ==
    {K_qty, K_bottles, K_cases, K_unit_price, K_discount, K_extended_amount,
     K_net_amount, K_deposit}

\* the fields of mapping d named in names are numbers or None
NumbersOrNone(d, names) ==
    \A name \in names : HasKey(d, name) => Get(d, name).k \in {"float", "num", "null"}

\* C16: in a record validate_invoice returns, each listed invoice-level and
\* item-level numeric field that is present is a number or None, never a string.
C16_NumericOrAbsent ==
    vpc = "returned" =>
        /\ NumbersOrNone(validated_data, InvoiceNumericNames)
        /\ \A i \in 1..Len(ItemsOf(validated_data).v) :
              NumbersOrNone(ItemsOf(validated_data).v[i], ItemNumericNames)

\* the position of x in sequence q, 0 when it is not in q
PositionIn(q, x) == IF \E i \in 1..Len(q) : q[i] = x
                        THEN CHOOSE i \in 1..Len(q) : q[i] = x
                        ELSE 0

\* the item index of "item_<i>"
ItemIndexOf(label) == CHOOSE i \in 0..MaxItems : ItemLabel(i) = label

\* where a finding belongs in the order of detection: <<stage, item, check>>
DetectionRank(f) ==
    IF f[1] \in {"missing_section", "items_not_list"} THEN <<1, 0, 0>>
    ELSE IF f[1] = "missing_required_field"
        THEN <<2, PositionIn(RequiredFields(vendor), f[2]), 0>>
    ELSE IF f[1] = "invalid_upc_format" THEN <<3, ItemIndexOf(f[2]), 1>>
    ELSE IF f[1] = "negative_quantity" THEN <<3, ItemIndexOf(f[2]), 2>>
    ELSE IF f[1] \in {"totals_mismatch", "invalid_invoice_total"} THEN <<4, 0, 0>>
    ELSE IF f[1] = "invalid_numeric_field" THEN <<5, 0, 0>>
    ELSE <<6, 0, 0>>

RankAtMost(a, b) ==
    \/ a[1] < b[1]
    \/ a[1] = b[1] /\ a[2] < b[2]
    \/ a[1] = b[1] /\ a[2] = b[2] /\ a[3] <= b[3]

\* C18: the findings of one validate_invoice call are in the order of detection:
\* structure, required fields in the vendor's order, items by index with upc
\* before quantity, totals, numeric fields; nothing is merged or dropped on the way.
C18_DetectionOrder ==
    /\ \A i, j \in 1..Len(validation_flags) :
          i < j => RankAtMost(DetectionRank(validation_flags[i]),
                              DetectionRank(validation_flags[j]))
    /\ \A i \in 2..Len(flags_at_step) :
          Len(flags_at_step[i]) >= Len(flags_at_step[i - 1])

\* a pass has returned with findings of all five stages, two of them for item 0
C18_Witness ==
    /\ vpc = "returned"
    /\ {DetectionRank(f)[1] : f \in Findings} = 1..5
    /\ <<"invalid_upc_format", ItemLabel(0)>> \in Findings
    /\ <<"negative_quantity", ItemLabel(0)>> \in Findings
    /\ <<"negative_quantity", ItemLabel(1)>> \in Findings

-----------------------------------------------------------------------------
(* InvoiceParser.parse_invoice and batch_parse, src/invoice_parser.py, and *)
(* process_batch, src/main.py.  One InvoiceParser with its one validator   *)
(* is shared by the threads.  A list object has an identity, its index in  *)
(* lists: meta["validation_flags"] holds a reference, [k |-> "ref"], so    *)
(* that two names bound to one list see each other's appends.              *)

K_meta == <<"m", "e", "t", "a">>
K_source_file == <<"s", "o", "u", "r", "c", "e", "_", "f", "i", "l", "e">>
K_vendor_detected == <<"v", "e", "n", "d", "o", "r", "_", "d", "e", "t", "e",
                         "c", "t", "e", "d">>
K_parse_confidence == <<"p", "a", "r", "s", "e", "_", "c", "o", "n", "f", "i",
                          "d", "e", "n", "c", "e">>
K_validation_flags == <<"v", "a", "l", "i", "d", "a", "t", "i", "o", "n", "_",
                          "f", "l", "a", "g", "s">>
K_barcode == <<"b", "a", "r", "c", "o", "d", "e">>

\* a reference to the list object with identity id
RefV(id) == [k |-> "ref", v |-> id]

\* line 43: the vendors parse_invoice accepts are Vendors; "acme" is not one
VendorIds == Vendors \cup {"acme"}

VendorName(v) ==
    CASE v = "lakeshore" -> <<"l", "a", "k", "e", "s", "h", "o", "r", "e">>
      [] v = "breakthru" -> <<"b", "r", "e", "a", "k", "t", "h", "r", "u">>
      [] v = "southern_glazers" ->
            <<"s", "o", "u", "t", "h", "e", "r", "n", "_",
              "g", "l", "a", "z", "e", "r", "s">>
      [] OTHER -> <<"a", "c", "m", "e">>

-----------------------------------------------------------------------------
(* The files given to parse_invoice.  A file is its path, what             *)
(* Config.validate_file and FileProcessor.process_file do with it, and     *)
(* what OpenAIClient.parse_invoice answers for its images.                 *)

\* {"items": [{"upc": "12345", "qty": "-1"}], "total_sales": "abc", "meta": 1}
FindingsResponse ==
    << "{", "\"", "i", "t", "e", "m", "s", "\"", ":", " ", "[", "{", "\"", "u",
       "p", "c", "\"", ":", " ", "\"", "1", "2", "3", "4", "5", "\"", ",", " ",
       "\"", "q", "t", "y", "\"", ":", " ", "\"", "-", "1", "\"", "}", "]", ",",
       " ", "\"", "t", "o", "t", "a", "l", "_", "s", "a", "l", "e", "s", "\"",
       ":", " ", "\"", "a", "b", "c", "\"", ",", " ", "\"", "m", "e", "t", "a",
       "\"", ":", " ", "1", "}" >>

\* {"vendor": {}, "invoice": {}, "account": {}, "items": [], "vendor_name": "x", "invoice_number": "1", "invoice_date": "x", "barcode": ["1"]}
CleanResponseText ==
    << "{", "\"", "v", "e", "n", "d", "o", "r", "\"", ":", " ", "{", "}", ",",
       " ", "\"", "i", "n", "v", "o", "i", "c", "e", "\"", ":", " ", "{", "}",
       ",", " ", "\"", "a", "c", "c", "o", "u", "n", "t", "\"", ":", " ", "{",
       "}", ",", " ", "\"", "i", "t", "e", "m", "s", "\"", ":", " ", "[", "]",
       ",", " ", "\"", "v", "e", "n", "d", "o", "r", "_", "n", "a", "m", "e",
       "\"", ":", " ", "\"", "x", "\"", ",", " ", "\"", "i", "n", "v", "o", "i",
       "c", "e", "_", "n", "u", "m", "b", "e", "r", "\"", ":", " ", "\"", "1",
       "\"", ",", " ", "\"", "i", "n", "v", "o", "i", "c", "e", "_", "d", "a",
       "t", "e", "\"", ":", " ", "\"", "x", "\"", ",", " ", "\"", "b", "a", "r",
       "c", "o", "d", "e", "\"", ":", " ", "[", "\"", "1", "\"", "]", "}" >>

\* [1]
ListResponse ==
    << "[", "1", "]" >>

\* {"items": [7]}
BadItemResponse ==
    << "{", "\"", "i", "t", "e", "m", "s", "\"", ":", " ", "[", "7", "]", "}" >>

\* {"items": [], "total_sales": "abc", "total_discount": 1000...0}, the number
\* being IntTooLarge
OverflowResponse ==
    << "{", "\"", "i", "t", "e", "m", "s", "\"", ":", " ", "[", "]", ",", " ",
       "\"", "t", "o", "t", "a", "l", "_", "s", "a", "l", "e", "s", "\"", ":",
       " ", "\"", "a", "b", "c", "\"", ",", " ", "\"", "t", "o", "t", "a", "l",
       "_", "d", "i", "s", "c", "o", "u", "n", "t", "\"", ":", " " >>
        \o IntTooLarge.v \o <<"}">>

\* oops
GarbledResponse ==
    << "o", "o", "p", "s" >>

\* the model call raised instead of answering
NoResponse == <<>>

File(path, valid, readable, response) ==
    [path |-> path, valid |-> valid, readable |-> readable, response |-> response]

FilePool ==
    { File(<<"a">>, "ok", TRUE, FindingsResponse),
      File(<<"b">>, "ok", TRUE, CleanResponseText),
      File(<<"c">>, "ok", TRUE, ListResponse),
      File(<<"d">>, "ok", TRUE, BadItemResponse),
      File(<<"e">>, "ok", TRUE, GarbledResponse),
      File(<<"o">>, "ok", TRUE, OverflowResponse),
      File(<<"m">>, "FileNotFoundError", TRUE, NoResponse),
      File(<<"t">>, "ValueError", TRUE, NoResponse),
      File(<<"u">>, "ok", FALSE, NoResponse),
      File(<<"n">>, "ok", TRUE, NoResponse) }

MaxFiles == 2

Batches == SeqsUpTo(FilePool, MaxFiles)

BatchKinds == {"batch_parse", "process_batch"}

-----------------------------------------------------------------------------
(* _parse_json_response as a function of the response, lines 97-153.       *)

Returned(v) == [error |-> "none", v |-> v]
Raised(error) == [error |-> error, v |-> NoneV]

\* lines 142-153
LoadFixed(r) ==
    IF ~r.ok THEN Raised("MalformedResponse")
    ELSE IF ~IsDict(r.v) THEN Raised("UnexpectedShape")
    ELSE Returned(r.v)

\* lines 115-126
LoadCleaned(text) ==
    IF FirstParseFails(text)
        THEN LoadFixed(JsonLoads(FixJsonResponse(text)))
        ELSE Returned(JsonLoads(text).v)

ParseJsonResponse(raw) == LoadCleaned(CleanMarkdown(raw))

-----------------------------------------------------------------------------
(* The steps of one thread.                                                *)

\* the locals of parse_invoice(file_path, vendor) when it is entered
EnterCall(f, v) ==
    [pc |-> "validate_file", file |-> f, vendor |-> v, record |-> NoneV,
     extracted |-> NoneV, error |-> "none", work |-> <<>>]

\* the call of thread t moves on to position pc
Goto(t, pc) == call' = [call EXCEPT ![t].pc = pc]

\* the call of thread t raises: lines 93-95 raise again what the try block raised
Raise(t, error) == call' = [call EXCEPT ![t].pc = "raised", ![t].error = error]

\* the call of thread t has done one more piece of pipeline work
Worked(t, step, pc) ==
    call' = [call EXCEPT ![t].pc = pc, ![t].work = Append(@, step)]

\* batch_parse lines 243-247 and process_batch lines 141-145: the loop takes the
\* next file and calls parse_invoice, or ends and returns results (line 255 /
\* line 157)
BatchParseNext(t) ==
    /\ batch[t].pc = "loop"
    /\ IF batch[t].next > Len(batch[t].files)
          THEN /\ batch' = [batch EXCEPT ![t].pc = "done"]
               /\ UNCHANGED call
          ELSE /\ batch' = [batch EXCEPT ![t].pc = "calling",
                                         ![t].next = @ + 1,
                                         ![t].attempted =
                                             Append(@, batch[t].files[batch[t].next].path)]
               /\ call' = [call EXCEPT ![t] =
                              EnterCall(batch[t].files[batch[t].next], batch[t].vendor)]
    /\ UNCHANGED <<lists, validator_flags, history>>
    /\ UNCHANGED <<repairVars, validateVars>>

\* line 42: Config.validate_file, src/config.py lines 136-159
ValidateFile(t) ==
    /\ call[t].pc = "validate_file"
    /\ IF call[t].file.valid = "ok"
          THEN Goto(t, "check_vendor")
          ELSE Raise(t, call[t].file.valid)
    /\ UNCHANGED <<lists, validator_flags, batch, history>>
    /\ UNCHANGED <<repairVars, validateVars>>

\* lines 43-44
CheckVendor(t) ==
    /\ call[t].pc = "check_vendor"
    /\ IF call[t].vendor \notin Vendors
          THEN Raise(t, "UnknownVendor")
          ELSE Goto(t, "process_file")
    /\ UNCHANGED <<lists, validator_flags, batch, history>>
    /\ UNCHANGED <<repairVars, validateVars>>

\* line 50
ProcessFile(t) ==
    /\ call[t].pc = "process_file"
    /\ IF call[t].file.readable
          THEN Worked(t, "convert", "model")
          ELSE call' = [call EXCEPT ![t].pc = "raised", ![t].error = "FileError",
                                    ![t].work = Append(@, "convert")]
    /\ UNCHANGED <<lists, validator_flags, batch, history>>
    /\ UNCHANGED <<repairVars, validateVars>>

\* lines 54-57
ModelCall(t) ==
    /\ call[t].pc = "model"
    /\ IF call[t].file.response = NoResponse
          THEN call' = [call EXCEPT ![t].pc = "raised", ![t].error = "ModelError",
                                    ![t].work = Append(@, "model")]
          ELSE Worked(t, "model", "parse")
    /\ UNCHANGED <<lists, validator_flags, batch, history>>
    /\ UNCHANGED <<repairVars, validateVars>>

\* the call of thread t has its response parsed, with outcome r
Parsed(t, r) ==
    call' = [call EXCEPT ![t].pc = IF r.error = "none" THEN "meta" ELSE "raised",
                         ![t].error = r.error,
                         ![t].record = r.v,
                         ![t].extracted = r.v,
                         ![t].work = Append(@, "repair")]

\* line 60
ParseResponse(t) ==
    /\ call[t].pc = "parse"
    /\ Parsed(t, ParseJsonResponse(call[t].file.response))
    /\ UNCHANGED <<lists, validator_flags, batch, history>>
    /\ UNCHANGED <<repairVars, validateVars>>

\* lines 63-68: the dict literal, its "validation_flags" a new list object id
MetaBlock(file_path, v, id) ==
    DictV([name \in {K_source_file, K_vendor_detected,
                     K_parse_confidence, K_validation_flags} |->
              CASE name = K_source_file -> StrV(file_path)
                [] name = K_vendor_detected -> StrV(VendorName(v))
                [] name = K_parse_confidence -> NumV(<<"0", ".", "9", "5">>)
                [] OTHER -> RefV(id)])

\* lines 63-68: a parsed value that is no dict does not take the item assignment
AddMeta(t) ==
    /\ call[t].pc = "meta"
    /\ IF IsDict(call[t].record)
          THEN /\ lists' = Append(lists, <<>>)
               /\ call' = [call EXCEPT
                              ![t].pc = "reset",
                              ![t].record =
                                  Put(@, K_meta,
                                      MetaBlock(call[t].file.path, call[t].vendor,
                                                Len(lists) + 1))]
          ELSE /\ Raise(t, "TypeError")
               /\ UNCHANGED lists
    /\ UNCHANGED <<validator_flags, batch, history>>
    /\ UNCHANGED <<repairVars, validateVars>>

\* validate_invoice without line 30: the validator keeps the list it has
RetainFlags(t) ==
    /\ call[t].pc = "reset"
    /\ Worked(t, "validate", "structure")
    /\ UNCHANGED <<lists, validator_flags, batch, history>>
    /\ UNCHANGED <<repairVars, validateVars>>

\* line 71, validate_invoice line 30: self.validation_flags is bound to a new list
ResetFlags(t) ==
    /\ call[t].pc = "reset"
    /\ lists' = Append(lists, <<>>)
    /\ validator_flags' = Len(lists) + 1
    /\ Worked(t, "validate", "structure")
    /\ UNCHANGED <<batch, history>>
    /\ UNCHANGED <<repairVars, validateVars>>

\* the findings of the list the validator holds now become flags
Flagged(flags) == lists' = [lists EXCEPT ![validator_flags] = flags]

Restructured(t, r) ==
    /\ call' = [call EXCEPT ![t].pc = "vendor", ![t].record = r.data]
    /\ Flagged(r.flags)

\* validate_invoice line 34
ValidateStructure(t) ==
    /\ call[t].pc = "structure"
    /\ Restructured(t, ValidateBasicStructure(call[t].record, lists[validator_flags]))
    /\ UNCHANGED <<validator_flags, batch, history>>
    /\ UNCHANGED <<repairVars, validateVars>>

\* validate_invoice lines 37-42
ValidateVendorFields(t) ==
    /\ call[t].pc = "vendor"
    /\ Flagged(ValidateVendor(call[t].record, lists[validator_flags], call[t].vendor))
    /\ Goto(t, "business")
    /\ UNCHANGED <<validator_flags, batch, history>>
    /\ UNCHANGED <<repairVars, validateVars>>

\* validate_invoice without line 55: the exception is raised again, no finding
\* is appended
BusinessSwallowed(t, r) ==
    IF r.raised
        THEN /\ Flagged(r.flags)
             /\ Raise(t, r.error)
        ELSE /\ Flagged(r.flags)
             /\ Goto(t, "types")

\* an exception is caught at validate_invoice lines 53-56: validation_error is
\* appended and the exception raised again, through parse_invoice lines 93-95
BusinessChecked(t, r) ==
    IF r.raised
        THEN /\ Flagged(AppendFlag(r.flags, Flag("validation_error", <<r.error>>)))
             /\ Raise(t, r.error)
        ELSE /\ Flagged(r.flags)
             /\ Goto(t, "types")

\* validate_invoice line 45
ValidateBusiness(t) ==
    /\ call[t].pc = "business"
    /\ BusinessChecked(t, ValidateBusinessRules(call[t].record, lists[validator_flags]))
    /\ UNCHANGED <<validator_flags, batch, history>>
    /\ UNCHANGED <<repairVars, validateVars>>

\* _validate_data_types has returned, or it has raised: validate_invoice lines
\* 53-56, then parse_invoice lines 93-95
Converted(t, r) ==
    IF r.raised
        THEN /\ Flagged(AppendFlag(r.flags, Flag("validation_error", <<"overflow">>)))
             /\ Raise(t, "overflow")
        ELSE /\ call' = [call EXCEPT ![t].pc = "attach", ![t].record = r.validated]
             /\ Flagged(r.flags)

\* validate_invoice lines 48-51; line 71 binds validated_data to the copy
ValidateTypes(t) ==
    /\ call[t].pc = "types"
    /\ Converted(t, ValidateDataTypes(call[t].record, lists[validator_flags]))
    /\ UNCHANGED <<validator_flags, batch, history>>
    /\ UNCHANGED <<repairVars, validateVars>>

\* validated_data["meta"]["validation_flags"], a reference
MetaFlags(record) == Get(Get(record, K_meta), K_validation_flags).v

\* validated_data["meta"]["validation_flags"] = the list id
WithMetaFlags(record, id) ==
    Put(record, K_meta, Put(Get(record, K_meta), K_validation_flags, RefV(id)))

\* parse_invoice without lines 74-75: the meta block keeps its own list
KeepMetaFlags(t) ==
    /\ call[t].pc = "attach"
    /\ Goto(t, "barcode")
    /\ UNCHANGED <<lists, validator_flags, batch, history>>
    /\ UNCHANGED <<repairVars, validateVars>>

\* lines 74-75: a validator list that is not empty replaces the list of the
\* meta block, by reference
AttachFlags(t) ==
    /\ call[t].pc = "attach"
    /\ call' = [call EXCEPT
                   ![t].pc = "barcode",
                   ![t].record = IF lists[validator_flags] # <<>>
                                     THEN WithMetaFlags(@, validator_flags)
                                     ELSE @]
    /\ UNCHANGED <<lists, validator_flags, batch, history>>
    /\ UNCHANGED <<repairVars, validateVars>>

\* validated_data.get("barcode", [])
BarcodesOf(record) ==
    IF HasKey(record, K_barcode) THEN Get(record, K_barcode) ELSE ListV(<<>>)

\* lines 82-83: the warning of barcode_count barcodes against items_count items
BarcodeWarning(barcode_count, items_count) ==
    Flag("WARNING", DecimalChars(barcode_count) \o <<"/">> \o DecimalChars(items_count))

\* lines 80-87
WarnBarcodes(record, barcodes, items) ==
    IF IsList(barcodes) /\ Len(barcodes.v) > 0 /\ Len(items.v) < Len(barcodes.v)
        THEN lists' = [lists EXCEPT ![MetaFlags(record)] =
                          Append(@, BarcodeWarning(Len(barcodes.v), Len(items.v)))]
        ELSE UNCHANGED lists

\* lines 77-87: the warning is appended to the list the meta block refers to
BarcodeCheck(t) ==
    /\ call[t].pc = "barcode"
    /\ WarnBarcodes(call[t].record, BarcodesOf(call[t].record), ItemsOf(call[t].record))
    /\ Goto(t, "return")
    /\ UNCHANGED <<validator_flags, batch, history>>
    /\ UNCHANGED <<repairVars, validateVars>>

\* line 91
ReturnRecord(t) ==
    /\ call[t].pc = "return"
    /\ Goto(t, "returned")
    /\ history' = Append(history, [thread |-> t,
                                   source |-> call[t].file.path,
                                   vendor |-> call[t].vendor,
                                   record |-> call[t].record,
                                   extracted |-> call[t].extracted,
                                   flags |-> lists[MetaFlags(call[t].record)]])
    /\ UNCHANGED <<lists, validator_flags, batch>>
    /\ UNCHANGED <<repairVars, validateVars>>

\* get_validation_summary, validators.py lines 218-224, of the shared validator
GetValidationSummary ==
    [total_flags |-> Len(lists[validator_flags]),
     flags |-> lists[validator_flags],
     is_valid |-> Len(lists[validator_flags]) = 0]

\* the file of the call is done, its result kept or not
Collected(t, kept) ==
    batch' = [batch EXCEPT
                 ![t].pc = "loop",
                 ![t].results = IF kept THEN Append(@, call[t].record) ELSE @,
                 ![t].outcomes = Append(@, kept)]

\* batch_parse line 248; process_batch lines 146-147, where save_result writes
\* the record to disk first and may raise, which lines 149-151 catch
CollectResult(t) ==
    /\ batch[t].pc = "calling"
    /\ call[t].pc = "returned"
    /\ \E saved \in IF batch[t].kind = "process_batch" THEN BOOLEAN ELSE {TRUE} :
          Collected(t, saved)
    /\ UNCHANGED <<lists, validator_flags, call, history>>
    /\ UNCHANGED <<repairVars, validateVars>>

\* a loop without the except clause: the exception leaves batch_parse
PropagateError(t) ==
    /\ batch[t].pc = "calling"
    /\ call[t].pc = "raised"
    /\ batch' = [batch EXCEPT ![t].pc = "raised", ![t].outcomes = Append(@, FALSE)]
    /\ UNCHANGED <<lists, validator_flags, call, history>>
    /\ UNCHANGED <<repairVars, validateVars>>

\* batch_parse lines 250-253, process_batch lines 149-151: the loop goes on
CatchError(t) ==
    /\ batch[t].pc = "calling"
    /\ call[t].pc = "raised"
    /\ Collected(t, FALSE)
    /\ UNCHANGED <<lists, validator_flags, call, history>>
    /\ UNCHANGED <<repairVars, validateVars>>

Step(t) ==
    \/ BatchParseNext(t)
    \/ ValidateFile(t)
    \/ CheckVendor(t)
    \/ ProcessFile(t)
    \/ ModelCall(t)
    \/ ParseResponse(t)
    \/ AddMeta(t)
    \/ ResetFlags(t)
    \/ ValidateStructure(t)
    \/ ValidateVendorFields(t)
    \/ ValidateBusiness(t)
    \/ ValidateTypes(t)
    \/ AttachFlags(t)
    \/ BarcodeCheck(t)
    \/ ReturnRecord(t)
    \/ CollectResult(t)
    \/ CatchError(t)

NextPipeline == \E t \in Threads : Step(t)

\* the locals of batch_parse(file_paths, vendor) / process_batch when entered
EnterBatch(kind, files, v) ==
    [pc |-> "loop", kind |-> kind, files |-> files, vendor |-> v, next |-> 1,
     results |-> <<>>, attempted |-> <<>>, outcomes |-> <<>>]

\* a thread that makes no call
Resting == EnterBatch("batch_parse", <<>>, "lakeshore")

ParserIdle ==
    /\ RepairIdle
    /\ ValidatorIdle
    /\ lists = << <<>> >>
    /\ validator_flags = 1
    /\ call = [t \in Threads |-> NoCall]
    /\ history = <<>>

\* one thread works through a batch, the invoices one after another
InitPipeline ==
    /\ ParserIdle
    /\ \E kind \in BatchKinds, files \in Batches, v \in VendorIds :
          batch = [t \in Threads |->
                      IF t = 1 THEN EnterBatch(kind, files, v)
                      ELSE [Resting EXCEPT !.pc = "done"]]

SpecPipeline == InitPipeline /\ [][NextPipeline]_vars

\* two threads, each with one invoice, on the same InvoiceParser
InitConcurrent ==
    /\ ParserIdle
    /\ \E kind \in BatchKinds, f1, f2 \in FilePool, v \in VendorIds :
          /\ f1 # f2
          /\ batch = [t \in Threads |->
                         EnterBatch(kind, <<IF t = 1 THEN f1 ELSE f2>>, v)]

SpecConcurrent == InitConcurrent /\ [][NextPipeline]_vars

-----------------------------------------------------------------------------
(* Claims about parse_invoice and batch_parse.                             *)

\* the findings one validation pass over record d for vendor v detects,
\* starting from no findings: validate_invoice lines 34-56
FindingsAfterTypes(r) ==
    IF r.raised
        THEN AppendFlag(r.flags, Flag("validation_error", <<"overflow">>))
        ELSE r.flags
FindingsAfterRules(d, r) ==
    IF r.raised
        THEN AppendFlag(r.flags, Flag("validation_error", <<r.error>>))
        ELSE FindingsAfterTypes(ValidateDataTypes(d, r.flags))
FindingsAfterVendor(d, flags) == FindingsAfterRules(d, ValidateBusinessRules(d, flags))
FindingsAfterStructure(r, v) ==
    FindingsAfterVendor(r.data, ValidateVendor(r.data, r.flags, v))
FindingsOf(d, v) == FindingsAfterStructure(ValidateBasicStructure(d, <<>>), v)

\* validate_invoice has just ended in the call of thread t, returning or raising
ValidateEnded(t) ==
    \/ call[t].pc = "attach"
    \/ /\ call[t].pc = "raised"
       /\ call[t].work # <<>>
       /\ call[t].work[Len(call[t].work)] = "validate"

\* C11: with the invoices processed one after another, the validator's list
\* after each validate_invoice call holds exactly the findings of that call's
\* record, and the list a returned record's meta block refers to still holds
\* what it held when the record was returned, whatever was called since.
C11_NoStaleFindings ==
    /\ \A t \in Threads :
          ValidateEnded(t) =>
              lists[validator_flags] = FindingsOf(call[t].extracted, call[t].vendor)
    /\ \A i \in 1..Len(history) :
          lists[MetaFlags(history[i].record)] = history[i].flags

\* a record with findings was returned, and a later call has validated
\* another record and returned it with other findings
C11_Witness ==
    /\ Len(history) = 2
    /\ Len(history[1].flags) > 1
    /\ history[2].flags # history[1].flags
    /\ MetaFlags(history[1].record) # MetaFlags(history[2].record)
    /\ batch[1].pc = "done"

\* the elements of q whose place is marked TRUE in keep
RECURSIVE KeptOf(_, _)
KeptOf(q, keep) ==
    IF q = <<>> \/ keep = <<>> THEN <<>>
    ELSE IF Head(keep) THEN <<Head(q)>> \o KeptOf(Tail(q), Tail(keep))
    ELSE KeptOf(Tail(q), Tail(keep))

Paths(files) == [i \in 1..Len(files) |-> files[i].path]

SourceFile(record) == Get(Get(record, K_meta), K_source_file).v

\* the records parse_invoice has returned to thread t, in order
ReturnedTo(t) ==
    LET mine == SelectSeq(history, LAMBDA h : h.thread = t)
    IN  [i \in 1..Len(mine) |-> mine[i].record]

RECURSIVE IsSubsequence(_, _)
IsSubsequence(q, r) ==
    IF q = <<>> THEN TRUE
    ELSE IF r = <<>> THEN FALSE
    ELSE IF Head(q) = Head(r) THEN IsSubsequence(Tail(q), Tail(r))
    ELSE IsSubsequence(q, Tail(r))

\* C12: no exception of a file leaves the batch loop; the files attempted so
\* far are the first files of the batch, each once and in input order; and
\* when the loop has ended every file has been attempted and the results are
\* the records of the files that succeeded, in input order (for batch_parse
\* every record parse_invoice returned, for process_batch those that were
\* also saved).
C12_BatchIsolation ==
    \A t \in Threads :
        batch[t].pc # "idle" =>
            /\ batch[t].pc # "raised"
            /\ batch[t].attempted = SubSeq(Paths(batch[t].files), 1, batch[t].next - 1)
            /\ batch[t].pc = "done" =>
                  /\ batch[t].attempted = Paths(batch[t].files)
                  /\ Len(batch[t].outcomes) = Len(batch[t].files)
                  /\ Paths([i \in 1..Len(batch[t].results) |->
                               [path |-> SourceFile(batch[t].results[i])]])
                        = KeptOf(batch[t].attempted, batch[t].outcomes)
                  /\ IsSubsequence(batch[t].results, ReturnedTo(t))
                  /\ batch[t].kind = "batch_parse" => batch[t].results = ReturnedTo(t)

\* a batch of two files has ended: the first file failed, the second was
\* attempted all the same and its record is the only result
C12_Witness ==
    /\ batch[1].pc = "done"
    /\ batch[1].outcomes = <<FALSE, TRUE>>
    /\ Len(batch[1].results) = 1
    /\ SourceFile(batch[1].results[1]) = batch[1].files[2].path
    /\ batch[1].files[1].path # batch[1].files[2].path

\* C13: a call of parse_invoice with a vendor that is not registered ends
\* with the unknown-vendor error and has done no pipeline work (no file
\* conversion, no model call, no repair, no validation).
C13_UnknownVendorFirst ==
    \A t \in Threads :
        /\ call[t].pc \notin {"idle", "validate_file", "check_vendor"}
        /\ call[t].vendor \notin Vendors
        => /\ call[t].pc = "raised"
           /\ call[t].error = "UnknownVendor"
           /\ call[t].work = <<>>

\* the returned value new of a field keeps the extracted value old, or is
\* None or a float put there by validation; the items list may have had its
\* elements coerced
FieldKept(name, old, new) ==
    \/ new = old
    \/ new.k \in {"null", "float"}
    \/ name = ItemsName /\ IsList(old) /\ IsList(new) /\ Len(new.v) = Len(old.v)

\* C15: every top-level field of the record _parse_json_response produced
\* is a field of the record parse_invoice returns, with the extracted value,
\* None, or a number.
C15_NoFieldDeleted ==
    \A i \in 1..Len(history) :
        \A name \in DOMAIN history[i].extracted.v :
            /\ HasKey(history[i].record, name)
            /\ FieldKept(name, Get(history[i].extracted, name),
                         Get(history[i].record, name))

\* the barcode warning parse_invoice lines 77-87 add for this record, if any
WarningIf(barcodes, items) ==
    IF IsList(barcodes) /\ Len(barcodes.v) > 0 /\ Len(items.v) < Len(barcodes.v)
        THEN <<BarcodeWarning(Len(barcodes.v), Len(items.v))>>
        ELSE <<>>
OwnWarning(record) == WarningIf(BarcodesOf(record), ItemsOf(record))

\* the findings of the invoice of the returned record h alone
OwnFindings(h) ==
    FindingsOf(h.extracted, h.vendor) \o OwnWarning(h.record)

\* C17: with two calls interleaving on one InvoiceParser, the list the meta
\* block of each returned record refers to holds exactly the findings of
\* that record's own invoice: none of the other invoice, none missing.
C17_FindingsPerInvoice ==
    \A i \in 1..Len(history) :
        lists[MetaFlags(history[i].record)] = OwnFindings(history[i])

\* the call of thread t has passed lines 63-68 and has not raised
HasMeta(t) ==
    call[t].pc \in {"reset", "structure", "vendor", "business", "types",
                    "attach", "barcode", "return", "returned"}

\* the meta block m is the one lines 63-68 made for this file and vendor,
\* whatever list its validation_flags refers to
MetaAsCreated(m, file_path, v) ==
    /\ IsDict(m)
    /\ HasKey(m, K_validation_flags)
    /\ Get(m, K_validation_flags).k = "ref"
    /\ Put(m, K_validation_flags, RefV(0)) = MetaBlock(file_path, v, 0)

\* the list the meta block of the call of thread t refers to
MetaList(t) == lists[MetaFlags(call[t].record)]

\* C19: from lines 63-68 on, and in every returned record, the record holds
\* the meta block created for its file and vendor, with source_file,
\* vendor_detected, parse_confidence and validation_flags; the list of a
\* returned record holds every finding of its invoice's validation pass in
\* the validator's order (followed by the barcode warning, if any); and no
\* step of the call removes or reorders what the meta block's list holds.
C19_MetaBlock ==
    /\ [](/\ \A t \in Threads :
               HasMeta(t) =>
                   MetaAsCreated(Get(call[t].record, K_meta),
                                 call[t].file.path, call[t].vendor)
          /\ \A i \in 1..Len(history) :
               /\ MetaAsCreated(Get(history[i].record, K_meta),
                                history[i].source, history[i].vendor)
               /\ lists[MetaFlags(history[i].record)] = OwnFindings(history[i]))
    /\ [][\A t \in Threads :
             HasMeta(t) /\ HasMeta(t)' => IsPrefix(MetaList(t), MetaList(t)')]_vars

\* a record was returned whose meta block refers to the validator's list,
\* which holds several findings
C19_Witness ==
    /\ Len(history) = 1
    /\ call[1].pc = "returned"
    /\ MetaFlags(history[1].record) = validator_flags
    /\ Len(lists[validator_flags]) > 2
    /\ history[1].flags = lists[validator_flags]

-----------------------------------------------------------------------------
(* Further claims about validate_invoice, checked under SpecValidate.      *)

\* the fields the claim requires of each vendor
FieldsRequiredOf(v) ==
    CASE v = "lakeshore" -> <<K_vendor_name, K_invoice_number, K_invoice_date>>
      [] v = "breakthru" -> <<K_vendor_name, K_invoice_number, K_customer_number>>
      [] v = "southern_glazers" -> <<K_vendor_name, K_invoice_number, K_account_number>>

\* the field name is absent from d, or holds None or an empty string, list or dict
AbsentOrEmpty(d, name) ==
    \/ ~HasKey(d, name)
    \/ Get(d, name) \in {NoneV, StrV(<<>>), ListV(<<>>), EmptyDict}

\* the findings with this tag, in the order they were recorded
FindingsTagged(tag) == SelectSeq(validation_flags, LAMBDA f : f[1] = tag)

VendorStepDone == vpc \in {"business", "types", "returned", "raised"}

\* the required fields of vendor v that are absent or empty in the record given
RequiredMissing(v) ==
    SelectSeq(FieldsRequiredOf(v), LAMBDA name : AbsentOrEmpty(data_in, name))

\* C23: once the vendor step is done, the missing_required_field findings
\* are one for each required field of the vendor that is absent or empty in
\* the record given, in the order of the vendor's list, and no other.
C23_RequiredFields ==
    VendorStepDone =>
        FindingsTagged("missing_required_field")
            = [i \in 1..Len(RequiredMissing(vendor)) |->
                  Flag("missing_required_field", RequiredMissing(vendor)[i])]

\* the first field that is present among qty, bottles, cases; None if none is
ExaminedQuantity(item) ==
    IF HasKey(item, K_qty) THEN Get(item, K_qty)
    ELSE IF HasKey(item, K_bottles) THEN Get(item, K_bottles)
    ELSE IF HasKey(item, K_cases) THEN Get(item, K_cases)
    ELSE NoneV

\* x parses as a number, and the number is below zero
NegativeNumber(x) == NegativeFloat(FloatOf(x))

\* C24: when the business rules have run without raising, negative_quantity:
\* item_i is among the findings exactly when the first field present among
\* qty, bottles, cases of the item at position i parses as a negative number;
\* an item with qty 0 is not flagged, whatever its bottles and cases hold.
C24_QuantitySign ==
    (BusinessRulesDone /\ vpc # "raised") =>
        \A i \in 1..Len(ItemsGiven) :
            (Flag("negative_quantity", ItemLabel(i - 1)) \in Findings)
                <=> NegativeNumber(ExaminedQuantity(ItemsGiven[i]))

TotalsMismatch == Flag("totals_mismatch", <<>>)
InvalidInvoiceTotal == Flag("invalid_invoice_total", <<>>)

\* x is a value and not the absence marker, None or "None"
PresentValue(x) == x # NoneV /\ x # StrV(NoneWord)

\* the amount of the item the sum takes: extended_amount or net_amount
ExaminedAmount(item) == PyOr(Get(item, K_extended_amount), Get(item, K_net_amount))

\* the item with amount 0 in place of an amount that does not parse as a number
WithZeroAmount(item) ==
    IF IsDict(item) /\ PresentValue(ExaminedAmount(item)) /\ ~FloatOf(ExaminedAmount(item)).ok
        THEN Put(Put(item, K_extended_amount, NumV(<<"0">>)), K_net_amount, NumV(<<"0">>))
        ELSE item

\* the findings of the totals check alone on the record given
TotalsFindingsOf(d) == ValidateTotals(d, <<>>)

\* C25: after the business rules, (a) with no items, or with neither
\* total_sales nor gross_total, there is no totals finding; (b) with items
\* and an invoice total that is present and does not parse,
\* invalid_invoice_total is recorded once and totals_mismatch is not; (c) an
\* item amount that does not parse counts as zero: with 0 in its place the
\* totals findings are the same; (d) never both totals_mismatch and
\* invalid_invoice_total.
C25_TotalsOutcomes ==
    BusinessRulesDone =>
        /\ (ItemsGiven = <<>>
              \/ (~HasKey(data_in, K_total_sales) /\ ~HasKey(data_in, K_gross_total)))
           => (TotalsMismatch \notin Findings /\ InvalidInvoiceTotal \notin Findings)
        /\ (ItemsGiven # <<>> /\ PresentValue(InvoiceTotal) /\ ~FloatOf(InvoiceTotal).ok)
           => /\ Len(FindingsTagged("invalid_invoice_total")) = 1
              /\ TotalsMismatch \notin Findings
        /\ FindingsTagged("totals_mismatch") \o FindingsTagged("invalid_invoice_total")
           = TotalsFindingsOf(Put(data_in, ItemsName,
                 ListV([i \in 1..Len(ItemsGiven) |-> WithZeroAmount(ItemsGiven[i])])))
        /\ ~(TotalsMismatch \in Findings /\ InvalidInvoiceTotal \in Findings)

\* _validate_data_types has run in this call: the fifth entry of flags_at_step
TypesDone == Len(flags_at_step) = 5

\* the field is present in the record given and holds no absence marker
Coercible(d, field) == HasKey(d, field) /\ NotNoneMarker(Get(d, field))

CountOf(f) == Len(SelectSeq(validation_flags, LAMBDA g : g = f))

\* C26: once _validate_data_types has run, validate_invoice has returned and
\* not raised, and each invoice-level numeric field that was present and no
\* absence marker holds its float, with no invalid_numeric_field finding for
\* it, or, where float() fails, holds None with exactly one such finding.
C26_InvoiceFieldCoercion ==
    TypesDone =>
        /\ vpc = "returned"
        /\ \A i \in 1..Len(NumericFields) :
              Coercible(data_in, NumericFields[i]) =>
                  IF FloatOf(Get(data_in, NumericFields[i])).ok
                      THEN /\ Get(validated_data, NumericFields[i])
                                = FloatV(FloatOf(Get(data_in, NumericFields[i])).f)
                           /\ CountOf(Flag("invalid_numeric_field", NumericFields[i])) = 0
                      ELSE /\ Get(validated_data, NumericFields[i]) = NoneV
                           /\ CountOf(Flag("invalid_numeric_field", NumericFields[i])) = 1

\* the invoice-level numeric fields of d whose conversion fails, in their order
FailingFields(d) ==
    SelectSeq(NumericFields,
              LAMBDA field : Coercible(d, field) /\ ~FloatOf(Get(d, field)).ok)

\* the findings at the end of step n of the call (1 structure, 2 vendor fields,
\* 3 business rules, 4 data types)
FindingsAtStep(n) == flags_at_step[n + 1]

\* C27: once _validate_data_types has run, each listed field of each item that
\* was present and no absence marker holds its float, or None where float()
\* fails, and the findings the step has added are one invalid_numeric_field
\* finding for each invoice-level field whose conversion failed, whatever the
\* items are.
C27_ItemCoercionSilent ==
    TypesDone =>
        /\ \A i \in 1..Len(ItemsGiven) : \A j \in 1..Len(NumericItemFields) :
              Coercible(ItemsGiven[i], NumericItemFields[j]) =>
                  Get(ItemsOf(data).v[i], NumericItemFields[j])
                      = IF FloatOf(Get(ItemsGiven[i], NumericItemFields[j])).ok
                            THEN FloatV(FloatOf(Get(ItemsGiven[i], NumericItemFields[j])).f)
                            ELSE NoneV
        /\ FindingsAtStep(4)
              = FindingsAtStep(3)
                    \o [k \in 1..Len(FailingFields(data_in)) |->
                           Flag("invalid_numeric_field", FailingFields(data_in)[k])]

\* the findings of q as a set
FindingsIn(q) == {q[i] : i \in 1..Len(q)}

\* C28: _validate_basic_structure records "items_not_list" exactly when the
\* record given has an items field that is no list; a record without an items
\* field gets "missing_section: items" and an empty items list, and no
\* "items_not_list".
C28_ItemsNotList ==
    StructureDone =>
        /\ (Flag("items_not_list", <<>>) \in FindingsIn(FindingsAtStep(1)))
              <=> (HasKey(data_in, ItemsName) /\ ~IsList(Get(data_in, ItemsName)))
        /\ ~HasKey(data_in, ItemsName) =>
              /\ Flag("missing_section", ItemsName) \in FindingsIn(FindingsAtStep(1))
              /\ Get(data, ItemsName) = ListV(<<>>)

-----------------------------------------------------------------------------
(* A further claim about parse_invoice, checked under SpecPipeline.        *)

\* parse_invoice has just returned a record to thread t
JustReturned(t) == call[t].pc = "returned"

\* the findings in the meta block of the record returned to thread t
ReturnedMetaFlags(t) == lists[MetaFlags(call[t].record)]

\* C29: when parse_invoice has returned a record, get_validation_summary()
\* agrees with it: flags equals the record's meta.validation_flags,
\* total_flags is its length, and is_valid holds exactly when it is empty,
\* also when the barcode warning was added.
C29_SummaryAgrees ==
    \A t \in Threads :
        JustReturned(t) =>
            /\ GetValidationSummary.flags = ReturnedMetaFlags(t)
            /\ GetValidationSummary.total_flags = Len(ReturnedMetaFlags(t))
            /\ GetValidationSummary.is_valid <=> (ReturnedMetaFlags(t) = <<>>)

\* the call of thread t is inside validate_invoice
InValidate(t) == call[t].pc \in {"structure", "vendor", "business", "types"}

\* the step is one in which validate_invoice raises in the call of thread t
ValidateRaises(t) == InValidate(t) /\ call'[t].pc = "raised"

ValidationErrors(flags) == SelectSeq(flags, LAMBDA f : f[1] = "validation_error")

\* C30: when a step inside validate_invoice raises, the validator's list keeps
\* the findings it held and ends with the one "validation_error" finding, which
\* carries the exception that parse_invoice raises; no record is returned then
\* or later in that call.
C30_ValidationError ==
    [][\A t \in Threads :
          /\ ValidateRaises(t) =>
                /\ IsPrefix(lists[validator_flags], lists'[validator_flags])
                /\ ValidationErrors(lists'[validator_flags])
                      = <<Flag("validation_error", <<call'[t].error>>)>>
                /\ lists'[validator_flags][Len(lists'[validator_flags])]
                      = Flag("validation_error", <<call'[t].error>>)
                /\ call'[t].error # "none"
                /\ validator_flags' = validator_flags
                /\ history' = history
          /\ (call[t].pc = "raised" /\ call'[t].pc # "raised") =>
                /\ call'[t].pc = "validate_file"
                /\ history' = history]_vars

\* validate_invoice has raised on an int too large for float() after it had
\* recorded "invalid_numeric_field: total_sales": that finding is kept, the
\* validation_error finding is the last one, no record was returned
C30_Witness ==
    /\ call[1].pc = "raised"
    /\ call[1].error = "overflow"
    /\ call[1].work # <<>>
    /\ call[1].work[Len(call[1].work)] = "validate"
    /\ Flag("invalid_numeric_field", K_total_sales) \in FindingsIn(lists[validator_flags])
    /\ lists[validator_flags][Len(lists[validator_flags])]
          = Flag("validation_error", <<"overflow">>)
    /\ history = <<>>

====
